---- MODULE Spec2Model ----
(***************************************************************************)
(* Orchestration layer of the voice assistant backend (backend-server):    *)
(* intent router, shared state store, cooldown / dedup guard, LinkedIn     *)
(* posting tool, posting workflow and session-end archival.                *)
(*                                                                         *)
(* Text is modelled as a sequence of atoms.  An atom is a run of n         *)
(* characters: whitespace (k = "ws"), or the letters of the word w in      *)
(* lower case ("lo"), upper case ("up") or mixed case ("mx").  strip,      *)
(* lower, upper and slicing are computed on that representation.           *)
(* Time is in whole seconds.                                               *)
(***************************************************************************)
EXTENDS Integers, Sequences, FiniteSets, TLC

VARIABLES
    now,                \* the clock (time.time(), loop.time())
    faults,             \* number of failed store / queue / image calls so far
    \* ---- intent router / orchestrator (agents/agent_router.py, agent.py)
    current_mode,       \* UnifiedAgent._current_mode
    router_answer,      \* outcome of the router's last model call
    agent_choice,       \* value returned by the last determine_agent call
    router_raised,      \* the last determine_agent call propagated an exception
    conversation,       \* store: namespace -> list of entries, newest first
    turns,              \* number of committed turns so far
    mode_state,         \* store: the mode held as scalar state (agent_state:*)
    \* ---- session-end archival (agent.py, entrypoint)
    conversation_saved, \* _conversation_saved["saved"]
    save_pc,            \* position of each save_conversation_on_exit task
    save_found,         \* the task read a non-empty transcript
    save_calls,         \* number of save_conversation invocations so far
    save_overlap,       \* some task started while another one was running
    \* ---- cooldown guard (services/shared_state.py)
    cooldown_key,       \* store key linkedin_post_cooldown: value and expiry
    cooldown_pc,        \* position of set_linkedin_cooldown
    cooldown_set_at,    \* time taken by the last set_linkedin_cooldown (-1: none)
    cooldown_check,     \* last check_linkedin_cooldown: argument, time, time of the
                        \* set_linkedin_cooldown before it (-1: none), result
    \* ---- duplicate guard (services/shared_state.py)
    dedup_keys,         \* store keys linkedin_post_dedup:<hash>: expiry per hash
    dup_pc,             \* position of each check_linkedin_duplicate call
    dup_call,           \* its content, window and start time, and the time of
                        \* its SETEX (-1: none)
    dup_result,         \* its return value
    \* ---- LinkedIn posting tool (agents/linkedin_agent.py)
    last_post_data,     \* store key agent_state:linkedin:last_post_data
    last_post,          \* store key agent_state:linkedin:last_post
    task_queue,         \* the work queue, newest first
    post_pc,            \* position of each post_to_linkedin call
    post_local,         \* its arguments and local variables, and whether it
                        \* has pushed its task
    post_result,        \* what it returned
    post_overlap,       \* the calls that were in flight when it started
    \* ---- X posting tool (agents/x_agent.py)
    x_pc,               \* position of each post_to_x call
    x_call,             \* its arguments, start time and image url
    x_result,           \* what it returned
    \* ---- posting workflow (workflows/linkedin_workflow.py)
    wf,                 \* LinkedInWorkflowRunner.state (started = FALSE: None)
    wf_complete,        \* LinkedInWorkflowRunner._is_complete
    wf_return,          \* text returned by the last start / continue_with
    wf_raised,          \* the last start / continue_with propagated an exception
    wf_calls,           \* number of start / continue_with calls so far
    \* ---- conversation log calls (services/shared_state.py)
    log_pc,             \* position of each add_conversation call
    log_call,           \* its namespace and entry
    log_pushed,         \* per namespace: the initial log and, on top of it, the
                        \* entries pushed by these calls, newest first, untrimmed
    log_prev,           \* the store command executed last, and by which call
    history,            \* the last get_conversation_history: arguments, the
                        \* command before it, and what it returned
    \* ---- token server (services/token_server.py)
    dispatched_rooms,   \* TokenServer._dispatched_rooms
    dispatch_pc,        \* position of each _create_room_and_dispatch task
    dispatch_room,      \* its room
    token_requests,     \* number of token requests handled so far
    token_last,         \* the last request: its room, whether the room was in
                        \* the set, the response status
    save_messages,      \* the messages handed to the last save_conversation call
    other_turns,        \* number of turns another session has logged in the store
    \* ---- message monitor (agent.py, entrypoint)
    chat_items,         \* the session's chat context: its user and assistant items
    saved_message_ids,  \* _saved_message_ids, an item named by its position
    norm,               \* two post contents, and whether each duplicate check takes
                        \* them for the same submission
    wf_last             \* the last call: operation, stage it found, whether it
                        \* found the workflow complete, outcome of its model
                        \* call, whether the guard would reject the draft,
                        \* the utterance it handled, the image description it
                        \* found, the model calls and guard calls it made

routerVars == <<current_mode, router_answer, agent_choice, router_raised, conversation, turns,
               mode_state>>
saveVars == <<conversation_saved, save_pc, save_found, save_calls, save_overlap, save_messages>>
cooldownVars == <<cooldown_key, cooldown_pc, cooldown_set_at, cooldown_check>>
dedupVars == <<dedup_keys, dup_pc, dup_call, dup_result>>
postVars == <<last_post_data, last_post, task_queue, post_pc, post_local, post_result,
              post_overlap>>

xVars == <<x_pc, x_call, x_result>>
normVars == <<norm>>
tokenVars == <<dispatched_rooms, dispatch_pc, dispatch_room, token_requests, token_last>>
wfVars == <<wf, wf_complete, wf_return, wf_raised, wf_calls, wf_last>>
monitorVars == <<chat_items, saved_message_ids>>
sessionVars == <<other_turns>>

logVars == <<log_pc, log_call, log_pushed, log_prev, history>>

vars == <<now, faults, routerVars, saveVars, cooldownVars, dedupVars, postVars, xVars, wfVars,
          logVars, normVars, tokenVars, monitorVars, sessionVars>>

\* what the operations of one component leave alone
exceptNow == <<routerVars, saveVars, cooldownVars, dedupVars, postVars, xVars, wfVars, logVars, normVars, tokenVars, monitorVars, sessionVars>>
exceptRouter == <<saveVars, cooldownVars, dedupVars, postVars, xVars, wfVars, logVars, normVars, tokenVars,
                  sessionVars>>
exceptSave == <<routerVars, cooldownVars, dedupVars, postVars, xVars, wfVars, logVars, normVars, tokenVars, monitorVars, sessionVars>>
exceptCooldown == <<routerVars, saveVars, dedupVars, postVars, xVars, wfVars, logVars, normVars, tokenVars, monitorVars, sessionVars>>
exceptDedup == <<routerVars, saveVars, cooldownVars, postVars, xVars, wfVars, logVars, normVars, tokenVars, monitorVars, sessionVars>>
exceptPost == <<routerVars, saveVars, cooldownVars, dedupVars, xVars, wfVars, logVars, normVars, tokenVars, monitorVars, sessionVars>>
exceptWf == <<routerVars, saveVars, cooldownVars, dedupVars, postVars, xVars, logVars, normVars, tokenVars, monitorVars, sessionVars>>
exceptLog == <<current_mode, router_answer, agent_choice, router_raised, turns, mode_state,
               saveVars, cooldownVars, dedupVars, postVars, xVars, wfVars, normVars, tokenVars,
               monitorVars, sessionVars>>
exceptNorm == <<routerVars, saveVars, cooldownVars, dedupVars, postVars, xVars, wfVars, logVars, tokenVars,
                monitorVars, sessionVars>>
exceptToken == <<routerVars, saveVars, cooldownVars, dedupVars, postVars, xVars, wfVars, logVars,
                 normVars, monitorVars, sessionVars>>
exceptX == <<routerVars, saveVars, cooldownVars, dedupVars, wfVars, logVars, last_post_data,
             last_post, post_pc, post_local, post_result, post_overlap, normVars, tokenVars, monitorVars, sessionVars>>

\* ------------------------------------------------------------------------
\* Bounds of the model
\* ------------------------------------------------------------------------
MaxTime == 3
MaxTurns == 2
MaxSaveTasks == 2
MaxOtherTurns == 1
CooldownHorizon == 100
DedupHorizon == 90
MaxDupCalls == 3
PostHorizon == 30
MaxPostCalls == 3
MaxInFlight == 2
MaxFaults == 1
WfHorizon == 10
MaxWfCalls == 3
MaxRunnerCalls == 4
MaxLogCalls == 3
MaxXCalls == 2
MaxImageCalls == 4
MaxDispatchTasks == 3
MaxTokenRequests == 4
XHorizon == 20

\* ------------------------------------------------------------------------
\* Text
\* ------------------------------------------------------------------------
Ws(n) == [k |-> "ws", w |-> " ", n |-> n]
Lo(w, n) == [k |-> "lo", w |-> w, n |-> n]
Up(w, n) == [k |-> "up", w |-> w, n |-> n]
Mx(w, n) == [k |-> "mx", w |-> w, n |-> n]

\* str.lower()
LowerAtom(a) == IF a.k \in {"up", "mx"} THEN [a EXCEPT !.k = "lo"] ELSE a
Lower(s) == [i \in 1..Len(s) |-> LowerAtom(s[i])]

\* str.upper()
UpperAtom(a) == IF a.k \in {"lo", "mx"} THEN [a EXCEPT !.k = "up"] ELSE a
Upper(s) == [i \in 1..Len(s) |-> UpperAtom(s[i])]

\* str.lstrip() / str.rstrip() / str.strip()
RECURSIVE LStrip(_)
LStrip(s) == IF s # <<>> /\ s[1].k = "ws" THEN LStrip(Tail(s)) ELSE s
RECURSIVE RStrip(_)
RStrip(s) ==
    IF s # <<>> /\ s[Len(s)].k = "ws" THEN RStrip(SubSeq(s, 1, Len(s) - 1)) ELSE s
Strip(s) == RStrip(LStrip(s))

\* len(s)
RECURSIVE StrLen(_)
StrLen(s) == IF s = <<>> THEN 0 ELSE s[1].n + StrLen(Tail(s))

\* s[:m]
RECURSIVE Prefix(_, _)
Prefix(s, m) ==
    IF s = <<>> \/ m <= 0 THEN <<>>
    ELSE IF s[1].n <= m THEN <<s[1]>> \o Prefix(Tail(s), m - s[1].n)
    ELSE <<[s[1] EXCEPT !.n = m]>>

\* ------------------------------------------------------------------------
\* Inference call outcomes: the call raises, returns no content, or returns
\* some text
\* ------------------------------------------------------------------------
Raised == [kind |-> "raise", text |-> <<>>]
NoContent == [kind |-> "none", text |-> <<>>]
Said(s) == [kind |-> "text", text |-> s]

\* ------------------------------------------------------------------------
\* Intent router
\* ------------------------------------------------------------------------
basic == <<Lo("basic", 5)>>
linkedin == <<Lo("linkedin", 8)>>
slack == <<Lo("slack", 5)>>
x == <<Lo("x", 1)>>
AgentTypes == {basic, linkedin, slack, x}

RouterAnswers ==
    { Said(basic), Said(linkedin), Said(slack), Said(x),
      Said(<<Up("linkedin", 8)>>), Said(<<Ws(1), Mx("slack", 5), Ws(1)>>),
      Said(<<Ws(2), Up("x", 1)>>),
      Said(<<Lo("twitter", 7)>>), Said(<<Lo("linkedin", 8), Lo(".", 1)>>),
      Said(<<Lo("the", 3), Ws(1), Lo("linkedin", 8)>>),
      Said(<<Lo("linkedin", 4)>>), Said(<<>>), Said(<<Ws(1)>>),
      NoContent, Raised }

\* The try block of determine_agent: the chat call, then
\* response.choices[0].message.content.strip().lower() and the validation.
\* A failed call raises, and so does .strip() on a missing content.
RouterTry(r) ==
    IF r.kind # "text" THEN [raised |-> TRUE, value |-> <<>>]
    ELSE LET choice == Lower(Strip(r.text))
         IN  [raised |-> FALSE,
              value |-> IF choice \in AgentTypes THEN choice ELSE basic]

\* determine_agent: the try block, with `except Exception` returning basic
DetermineAgentNoValidation(r) ==
    IF r.kind # "text" THEN [raised |-> FALSE, value |-> basic]
    ELSE [raised |-> FALSE, value |-> Lower(Strip(r.text))]
DetermineAgent(r) ==
    IF RouterTry(r).raised THEN [raised |-> FALSE, value |-> basic]
    ELSE RouterTry(r)

\* ------------------------------------------------------------------------
\* Shared state store: conversation log
\* ------------------------------------------------------------------------
ConversationLimit == 100

Roles == {"user", "assistant"}

\* LPUSH key entry
LPush(list, e) == <<e>> \o list
\* LTRIM key 0 99.  (First a variant that keeps one entry less.)
LTrimOneLess(list, last) == SubSeq(list, 1, IF Len(list) < last THEN Len(list) ELSE last)
LTrim(list, last) == SubSeq(list, 1, IF Len(list) < last + 1 THEN Len(list) ELSE last + 1)

\* add_conversation: push the entry, then keep the newest 100
AddConversation(conv, ns, role, msg, t) ==
    [conv EXCEPT ![ns] =
        LTrim(LPush(@, [role |-> role, message |-> msg, timestamp |-> t,
                        agent_name |-> ns]),
              ConversationLimit - 1)]

Utterances == {"u1"}

\* LRANGE key start stop: both ends inclusive, from 0; a negative index
\* counts from the end of the list (-1 is the last element)
LRangeIndex(list, i) == IF i < 0 THEN (IF Len(list) + i < 0 THEN 0 ELSE Len(list) + i) ELSE i
LRange(list, start, stop) ==
    LET first == LRangeIndex(list, start)
        last == IF LRangeIndex(list, stop) >= Len(list) THEN Len(list) - 1
                ELSE LRangeIndex(list, stop)
    IN  IF first > last \/ first >= Len(list) THEN <<>>
        ELSE SubSeq(list, first + 1, last + 1)

\* get_conversation_history(agent_name, limit).  (First a variant that
\* reads from the old end of the list.)
GetConversationHistoryOldest(conv, ns, limit) == LRange(conv[ns], 0 - limit, -1)
GetConversationHistory(conv, ns, limit) == LRange(conv[ns], 0, limit - 1)

\* the entry add_conversation builds
Entry(ns, role, msg, t) ==
    [role |-> role, message |-> msg, timestamp |-> t, agent_name |-> ns]

\* the namespaces, messages and limits the calls are made with
LogNamespaces == {linkedin}
LogMessages == [c \in 1..MaxLogCalls |-> <<"m", c>>]
LogRoles == [c \in 1..MaxLogCalls |-> IF c % 2 = 1 THEN "user" ELSE "assistant"]
HistoryLimits == {0, 1, 2}

\* a log as k earlier add_conversation calls left it
Prefilled(ns, k) == [i \in 1..k |-> Entry(ns, "user", <<"old", k - i + 1>>, 0 - i)]
LogPrefills == {0, ConversationLimit - 1}

\* ------------------------------------------------------------------------
\* Store keys with a time to live.  expire_at = -1: the key never expires.
\* ------------------------------------------------------------------------
NoKey == [set |-> FALSE, value |-> 0, expire_at |-> -1]
\* SET key value (drops any time to live)
KeySet(v) == [set |-> TRUE, value |-> v, expire_at |-> -1]
\* EXPIRE key ttl, at time t
KeyExpire(k, ttl, t) == IF k.set THEN [k EXCEPT !.expire_at = t + ttl] ELSE k
\* SETEX key ttl value, at time t.  (First a variant that sets no expiry.)
KeySetExNoExpiry(v, ttl, t) == [set |-> TRUE, value |-> v, expire_at |-> -1]
KeySetEx(v, ttl, t) == [set |-> TRUE, value |-> v, expire_at |-> t + ttl]
\* the key exists at time t
KeyLive(k, t) == k.set /\ (k.expire_at = -1 \/ t < k.expire_at)

\* ------------------------------------------------------------------------
\* Cooldown guard
\* ------------------------------------------------------------------------
CooldownExpiry == 60
CooldownIntervals == {0, 10, 30, 60, 90}

\* check_linkedin_cooldown(cooldown_seconds) at time t on key k:
\* (is_allowed, remaining_seconds)
CheckCooldown(k, cooldown_seconds, t) ==
    IF KeyLive(k, t) /\ t - k.value < cooldown_seconds
    THEN [allowed |-> FALSE, remaining |-> cooldown_seconds - (t - k.value)]
    ELSE [allowed |-> TRUE, remaining |-> 0]

\* ------------------------------------------------------------------------
\* Duplicate guard
\* ------------------------------------------------------------------------
DedupWindow == 60

Contents ==
    { <<Lo("hello", 5)>>, <<Ws(1), Mx("hello", 5), Ws(2)>>, <<Lo("bye", 3)>> }

\* hashlib.md5(post_content.strip().lower().encode()).hexdigest(); the hash
\* is taken to be collision free and is modelled by the text it is taken of
ContentHash(post_content) == Lower(Strip(post_content))

Fingerprints == {ContentHash(c) : c \in Contents}

\* ------------------------------------------------------------------------
\* LinkedIn posting tool: data
\* ------------------------------------------------------------------------
PostCooldown == 10
\* the cooldown the orchestrator's tool announces, and the default of
\* check_linkedin_cooldown
AnnouncedCooldown == 30
PreviewLength == 100
RecentPostsKept == 3

\* post_content[:100].lower().strip()
PostPreview(post_content) == Strip(Lower(Prefix(post_content, PreviewLength)))

\* set_state(key, value, ttl): SETEX when a ttl is given, SET otherwise;
\* the time at which the key expires
NoTtl == 0
NoExpiry == -1
StateExpiry(ttl, t) == IF ttl # NoTtl THEN t + ttl ELSE NoExpiry

\* get_state(..., {}) on a key never written: timestamp 0, no recent posts
NoPostData == [set |-> FALSE, timestamp |-> 0, recent_posts |-> <<>>,
               last_post_preview |-> <<>>, expire |-> NoExpiry]

\* get_state(key, {}) at time t: the value, or the default once the key
\* has expired
GetState(data, t) ==
    IF data.set /\ (data.expire = NoExpiry \/ t < data.expire) THEN data ELSE NoPostData

\* the record earlier sessions left in the store: k accepted posts, ten
\* seconds apart, the last one at time 0
EarlierPosts(k) ==
    [i \in 1..k |-> [preview |-> <<Lo("old", i)>>, timestamp |-> 0 - PostCooldown * (k - i),
                     call_id |-> 0]]
EarlierPostData(k) ==
    IF k = 0 THEN NoPostData
    ELSE [set |-> TRUE, timestamp |-> 0, recent_posts |-> EarlierPosts(k),
          last_post_preview |-> <<Lo("old", k)>>, expire |-> NoExpiry]
PostPrefills == {0, RecentPostsKept - 1, RecentPostsKept}

NoImage == "none"
ImageDescriptions == {NoImage, "a rocket"}

NoXCall == [post_content |-> <<>>, image_description |-> NoImage, start |-> 0,
            image_url |-> NoImage, pushed |-> FALSE]

NoPostLocal == [post_content |-> <<>>, image_description |-> NoImage,
                current_time |-> 0, recent_posts |-> <<>>, image_url |-> NoImage,
                pushed |-> FALSE]

\* some recent post has this preview
InRecentPosts(recent_posts, preview) ==
    \E i \in 1..Len(recent_posts) : recent_posts[i].preview = preview

\* recent_posts.append(entry); if len(recent_posts) > 3: recent_posts.pop(0)
AppendRecentKeepAll(recent_posts, entry) == Append(recent_posts, entry)
AppendRecent(recent_posts, entry) ==
    IF Len(recent_posts) + 1 > RecentPostsKept
    THEN Tail(Append(recent_posts, entry))
    ELSE Append(recent_posts, entry)

\* the checks of post_to_linkedin on the record it read: the message it
\* returns early with, or "go" to carry on
PostGuardNoDedup(data, post_content, current_time) ==
    IF current_time - data.timestamp < PostCooldown THEN "cooldown" ELSE "go"
PostGuard(data, post_content, current_time) ==
    IF current_time - data.timestamp < PostCooldown THEN "cooldown"
    ELSE IF InRecentPosts(data.recent_posts, PostPreview(post_content)) THEN "duplicate"
    ELSE "go"

\* ------------------------------------------------------------------------
\* Posting workflow: data
\* ------------------------------------------------------------------------
NoneStr == "<None>"
NoText == [some |-> FALSE, text |-> <<>>]
SomeText(t) == [some |-> TRUE, text |-> t]

\* get_llm() raised: no API key in the environment
NoClient == [kind |-> "noclient", text |-> <<>>]

Human(content) == [role |-> "human", content |-> content]
AI(content) == [role |-> "ai", content |-> content]

\* runner.state is None
NoWorkflow ==
    [started |-> FALSE, messages |-> <<>>, user_request |-> NoneStr,
     draft_content |-> NoText, image_description |-> NoneStr,
     user_confirmed |-> FALSE, wants_image |-> FALSE, stage |-> "not_started",
     result |-> NoneStr, error |-> NoneStr]

\* initial_state of start()
InitialState(user_request) ==
    [started |-> TRUE, messages |-> <<Human(user_request)>>, user_request |-> user_request,
     draft_content |-> NoText, image_description |-> NoneStr,
     user_confirmed |-> FALSE, wants_image |-> FALSE, stage |-> "drafting",
     result |-> NoneStr, error |-> NoneStr]

Topics == {"AI trends"}

\* what the drafting / revising model call can answer
DraftAnswers ==
    { Said(<<Lo("hello", 5)>>), Said(<<Ws(1), Lo("bye", 3), Ws(1)>>),
      Said(<<Ws(2)>>), NoContent, Raised, NoClient }

APPROVE == <<Up("approve", 7)>>
ADD_IMAGE == <<Up("add_image", 9)>>
CANCEL == <<Up("cancel", 6)>>
EDIT == <<Up("edit", 4)>>

\* what the intent classification call can answer
IntentAnswers ==
    { Said(<<Ws(1), Lo("approve", 7), Ws(1)>>), Said(<<Up("approve", 7), Lo(".", 1)>>),
      Said(EDIT), Said(<<Mx("add_image", 9)>>), Said(<<Lo("cancel", 6), Ws(1)>>),
      Raised, NoClient }

\* user utterances: the text, and which of the keywords of
\* handle_image_request occur in its lower-cased form
ConfirmWords == {"yes", "good", "perfect", "go ahead", "post"}
DeclineWords == {"no", "cancel", "nevermind", "skip"}
WfUtterances ==
    { [text |-> "yes", words |-> {"yes"}],
      [text |-> "a rocket launching at sunset", words |-> {}],
      [text |-> "cancel", words |-> {"cancel"}] }
\* no utterance was handled
NoUtterance == [text |-> NoneStr, words |-> {}]

\* [m.content for m in messages if AIMessage][-1], or None
RECURSIVE LastAI(_)
LastAI(messages) ==
    IF messages = <<>> THEN NoneStr
    ELSE IF messages[Len(messages)].role = "ai" THEN messages[Len(messages)].content
    ELSE LastAI(SubSeq(messages, 1, Len(messages) - 1))

\* runner.get_last_response()
GetLastResponse(st) == IF st.started THEN LastAI(st.messages) ELSE NoneStr
\* `if not self.state`
NoActiveWorkflowNever(st) == FALSE
NoActiveWorkflow(st) == ~st.started
\* runner.is_complete.  (First a variant that looks at the flag alone.)
IsCompleteFlagOnly(st, flag) == flag
IsComplete(st, flag) == flag \/ (st.started /\ st.stage \in {"posted", "cancelled"})
\* a or b
Or(a, b) == IF a # NoneStr /\ a # "" THEN a ELSE b

\* ------------------------------------------------------------------------
\* Posting workflow: nodes.  Each returns [raised, state]: the exception
\* propagated to the caller, or the state the node returns.
\* ------------------------------------------------------------------------
\* draft_post
DraftPost(st, r) ==
    IF r.kind = "noclient" THEN [raised |-> TRUE, state |-> st]
    ELSE IF r.kind = "text"
    THEN [raised |-> FALSE,
          state |-> [st EXCEPT !.draft_content = SomeText(Strip(r.text)),
                               !.stage = "reviewing",
                               !.messages = Append(@, AI("Here's a draft"))]]
    ELSE [raised |-> FALSE,
          state |-> [st EXCEPT !.error = "Failed to draft post", !.stage = "cancelled"]]

\* the draft revise_draft puts in its prompt ("Current draft: ...").  (First
\* a variant whose prompt carries no draft.)
RevisionInputNone(st) == NoText
RevisionInput(st) == st.draft_content
\* no revision call was made
NoRevision == [made |-> FALSE, draft |-> NoText]

\* revise_draft; an exception of its get_llm() goes to the caller
ReviseDraft(st, r) ==
    IF r.kind = "noclient" THEN [raised |-> TRUE, state |-> st]
    ELSE IF r.kind = "text"
    THEN [raised |-> FALSE,
          state |-> [st EXCEPT !.draft_content = SomeText(Strip(r.text)),
                               !.stage = "reviewing",
                               !.messages = Append(@, AI("Here's the revised post"))]]
    ELSE [raised |-> FALSE, state |-> [st EXCEPT !.error = "Failed to revise draft"]]

\* review_draft: intent is the classification call, r the revision call.
\* (First a variant that confirms on every word it does not know.)
ReviewDraftApproveUnknown(st, intent, r) ==
    IF intent.kind = "noclient" THEN [raised |-> TRUE, state |-> st]
    ELSE IF intent.kind # "text"
    THEN [raised |-> FALSE, state |-> [st EXCEPT !.error = "Error processing review"]]
    ELSE IF Upper(Strip(intent.text)) \notin {ADD_IMAGE, CANCEL, EDIT}
    THEN [raised |-> FALSE,
          state |-> [st EXCEPT !.user_confirmed = TRUE, !.stage = "confirmed"]]
    ELSE [raised |-> FALSE, state |-> st]
ReviewDraft(st, intent, r) ==
    IF intent.kind = "noclient" THEN [raised |-> TRUE, state |-> st]
    ELSE IF intent.kind # "text"
    THEN [raised |-> FALSE, state |-> [st EXCEPT !.error = "Error processing review"]]
    ELSE IF Upper(Strip(intent.text)) = APPROVE
    THEN [raised |-> FALSE,
          state |-> [st EXCEPT !.user_confirmed = TRUE, !.stage = "confirmed"]]
    ELSE IF Upper(Strip(intent.text)) = ADD_IMAGE
    THEN [raised |-> FALSE,
          state |-> [st EXCEPT !.wants_image = TRUE, !.stage = "image_review",
                               !.messages = Append(@, AI("What would you like the image to show?"))]]
    ELSE IF Upper(Strip(intent.text)) = CANCEL
    THEN [raised |-> FALSE,
          state |-> [st EXCEPT !.stage = "cancelled", !.result = "Post cancelled by user."]]
    ELSE IF ReviseDraft(st, r).raised
    THEN [raised |-> FALSE, state |-> [st EXCEPT !.error = "Error processing review"]]
    ELSE ReviseDraft(st, r)

\* number of model calls (llm.ainvoke) review_draft makes, revise_draft's
\* included
ReviewCalls(intent, r) ==
    IF intent.kind = "noclient" THEN 0
    ELSE IF intent.kind = "text" /\ Upper(Strip(intent.text)) \notin {APPROVE, ADD_IMAGE, CANCEL}
              /\ r.kind # "noclient"
    THEN 2
    ELSE 1

\* handle_image_request.  (First a variant that forgets the description
\* when the user confirms it.)
HandleImageRequestDropImage(st, u) ==
    IF st.image_description # NoneStr /\ st.image_description # ""
    THEN [st EXCEPT !.user_confirmed = TRUE, !.stage = "confirmed",
                    !.image_description = NoneStr]
    ELSE [st EXCEPT !.image_description = u.text,
                    !.messages = Append(@, AI("I'll generate an image. Ready to post with this image?"))]
\* (A variant that takes any answer to a proposed description as a yes.)
HandleImageRequestConfirmAny(st, u) ==
    IF st.image_description # NoneStr /\ st.image_description # ""
    THEN [st EXCEPT !.user_confirmed = TRUE, !.stage = "confirmed"]
    ELSE [st EXCEPT !.image_description = u.text,
                    !.messages = Append(@, AI("I'll generate an image. Ready to post with this image?"))]
\* (A variant that takes the utterance as the new text of the post.)
HandleImageRequestAsFeedback(st, u) ==
    [st EXCEPT !.draft_content = SomeText(<<Lo(u.text, 1)>>),
               !.image_description = u.text,
               !.messages = Append(@, AI("I'll generate an image. Does this sound good?"))]
HandleImageRequest(st, u) ==
    IF st.image_description # NoneStr /\ st.image_description # ""
    THEN IF u.words \cap ConfirmWords # {}
         THEN [st EXCEPT !.user_confirmed = TRUE, !.stage = "confirmed"]
         ELSE IF u.words \cap DeclineWords # {}
         THEN [st EXCEPT !.image_description = NoneStr, !.wants_image = FALSE,
                         !.stage = "reviewing",
                         !.messages = Append(@, AI("Here's your post without an image"))]
         ELSE [st EXCEPT !.image_description = u.text,
                         !.messages = Append(@, AI("I'll generate an image. Does this sound good?"))]
    ELSE [st EXCEPT !.image_description = u.text,
                    !.messages = Append(@, AI("I'll generate an image. Ready to post with this image?"))]

\* execute_post
ExecutePost(st) ==
    [st EXCEPT !.stage = "posted", !.result = "Your LinkedIn post is ready to be published!",
               !.messages = Append(@, AI("Your LinkedIn post is ready to be published!"))]

\* The Cooldown & Dedup Guard would reject a submission of this text now:
\* the posting tool's checks, on the record of an accepted submission
GuardRejects(content) ==
    /\ content.some
    /\ last_post_data.set
    /\ PostGuard(last_post_data, content.text, now) # "go"

\* ------------------------------------------------------------------------
\* Initial state
\* ------------------------------------------------------------------------
\* no mode is held in the store
NoMode == <<>>

InitOrchestrator ==
    /\ current_mode = basic
    /\ router_answer = Said(basic)
    /\ agent_choice = basic
    /\ router_raised = FALSE
    /\ turns = 0
    /\ mode_state = NoMode

InitRouter ==
    /\ InitOrchestrator
    /\ conversation = [ns \in AgentTypes |-> <<>>]

InitLogCalls ==
    /\ log_pc = [c \in 1..MaxLogCalls |-> "idle"]
    /\ log_call = [c \in 1..MaxLogCalls |-> [ns |-> basic, entry |-> Entry(basic, "user", <<"m", c>>, 0)]]
    /\ log_pushed = conversation
    /\ log_prev = [op |-> "none", c |-> 0]
    /\ history = [done |-> FALSE, ns |-> basic, limit |-> 0, prev |-> [op |-> "none", c |-> 0],
                  result |-> <<>>]

InitSave ==
    /\ conversation_saved = FALSE
    /\ save_pc = [t \in 1..MaxSaveTasks |-> "idle"]
    /\ save_found = [t \in 1..MaxSaveTasks |-> FALSE]
    /\ save_calls = 0
    /\ save_overlap = FALSE
    /\ save_messages = <<>>

InitCooldown ==
    /\ cooldown_key = NoKey
    /\ cooldown_pc = "idle"
    /\ cooldown_set_at = -1
    /\ cooldown_check = [done |-> FALSE, interval |-> 0, at |-> 0, since |-> -1,
                         allowed |-> TRUE, remaining |-> 0]

InitDedup ==
    /\ dedup_keys = [h \in Fingerprints |-> NoKey]
    /\ dup_pc = [c \in 1..MaxDupCalls |-> "idle"]
    /\ dup_call = [c \in 1..MaxDupCalls |->
          [content |-> <<>>, window |-> 0, start |-> 0, recorded |-> -1]]
    /\ dup_result = [c \in 1..MaxDupCalls |-> FALSE]

InitPost ==
    /\ last_post_data = NoPostData
    /\ last_post = [set |-> FALSE, timestamp |-> 0, preview |-> <<>>]
    /\ task_queue = <<>>
    /\ post_pc = [c \in 1..MaxPostCalls |-> "idle"]
    /\ post_local = [c \in 1..MaxPostCalls |-> NoPostLocal]
    /\ post_result = [c \in 1..MaxPostCalls |-> "none"]
    /\ post_overlap = [c \in 1..MaxPostCalls |-> {}]

InitX ==
    /\ x_pc = [c \in 1..MaxXCalls |-> "idle"]
    /\ x_call = [c \in 1..MaxXCalls |-> NoXCall]
    /\ x_result = [c \in 1..MaxXCalls |-> "none"]

NoComparison ==
    [a |-> <<>>, b |-> <<>>, done |-> FALSE, by_post |-> FALSE, by_check |-> FALSE]

InitNorm == norm = NoComparison

InitMonitor ==
    /\ chat_items = <<>>
    /\ saved_message_ids = {}
    /\ other_turns = 0

Rooms == {"my-room", "room-2"}

InitToken ==
    /\ dispatched_rooms = {}
    /\ dispatch_pc = [t \in 1..MaxDispatchTasks |-> "idle"]
    /\ dispatch_room = [t \in 1..MaxDispatchTasks |-> "my-room"]
    /\ token_requests = 0
    /\ token_last = [room |-> "my-room", known |-> FALSE, status |-> 0]

InitWf ==
    /\ wf = NoWorkflow
    /\ wf_complete = FALSE
    /\ wf_return = NoneStr
    /\ wf_raised = FALSE
    /\ wf_calls = 0
    /\ wf_last = [op |-> "none", stage |-> "not_started", intent |-> Raised,
                  complete |-> FALSE, guard_rejects |-> FALSE,
                  handled |-> NoUtterance, image |-> NoneStr,
                  llm_calls |-> 0, guard_consults |-> 0,
                  revised_from |-> NoRevision]

Init ==
    /\ now = 0
    /\ faults = 0
    /\ InitRouter
    /\ InitSave
    /\ InitCooldown
    /\ InitDedup
    /\ InitPost
    /\ InitX
    /\ InitNorm
    /\ InitToken
    /\ InitMonitor
    /\ InitWf
    /\ InitLogCalls

\* the same, with the conversation logs as earlier sessions left them
InitLog ==
    /\ now = 0
    /\ faults = 0
    /\ InitOrchestrator
    /\ \E k \in LogPrefills : conversation = [ns \in AgentTypes |-> Prefilled(ns, k)]
    /\ InitSave
    /\ InitCooldown
    /\ InitDedup
    /\ InitPost
    /\ InitX
    /\ InitNorm
    /\ InitToken
    /\ InitMonitor
    /\ InitWf
    /\ InitLogCalls

\* ------------------------------------------------------------------------
\* The clock
\* ------------------------------------------------------------------------
Tick(d, horizon) ==
    /\ now + d <= horizon
    /\ now' = now + d
    /\ UNCHANGED <<faults, exceptNow>>

\* ------------------------------------------------------------------------
\* Orchestrator: on_user_speech_committed
\* ------------------------------------------------------------------------
\* Route the utterance, switch mode if the router's answer differs, log the
\* turn under the (new) mode.  A store failure while logging is caught; an
\* exception out of determine_agent is not.  The session calls the hook for a
\* message it has committed to its chat context.
OnUserSpeechCommitted(text, r, storeUp) ==
    /\ turns < MaxTurns
    /\ turns' = turns + 1
    /\ chat_items' = Append(chat_items, [role |-> "user", content |-> text])
    /\ router_answer' = r
    /\ router_raised' = DetermineAgent(r).raised
    /\ IF DetermineAgent(r).raised
       THEN UNCHANGED <<agent_choice, current_mode, conversation>>
       ELSE /\ agent_choice' = DetermineAgent(r).value
            /\ current_mode' = agent_choice'
            /\ conversation' =
                  IF storeUp
                  THEN AddConversation(conversation, current_mode', "user", text, now)
                  ELSE conversation
    /\ UNCHANGED <<now, faults, mode_state, saved_message_ids, exceptRouter>>

NextRouter ==
    \/ \E d \in {1} : Tick(d, MaxTime)
    \/ \E text \in Utterances, r \in RouterAnswers, storeUp \in BOOLEAN :
          OnUserSpeechCommitted(text, r, storeUp)

SpecRouter == Init /\ [][NextRouter]_vars

\* ------------------------------------------------------------------------
\* Orchestrator: on_agent_speech_committed
\* ------------------------------------------------------------------------
\* Log the reply under the current mode; a store failure is caught.
OnAgentSpeechCommitted(text, storeUp) ==
    /\ turns < MaxTurns
    /\ turns' = turns + 1
    /\ chat_items' = Append(chat_items, [role |-> "assistant", content |-> text])
    /\ conversation' =
          IF storeUp
          THEN AddConversation(conversation, current_mode, "assistant", text, now)
          ELSE conversation
    /\ UNCHANGED <<now, faults, current_mode, router_answer, agent_choice, router_raised,
                   mode_state, saved_message_ids, exceptRouter>>

\* ------------------------------------------------------------------------
\* Entrypoint: monitor_session_messages, a background task started before
\* the session.  Every second it walks the chat context in order; an item
\* whose id is not in _saved_message_ids and whose stripped content is not
\* empty is added to the set and logged under the current mode (a store
\* failure is caught).  The task is suspended at each add_conversation, so
\* the hooks run between two items.
\* ------------------------------------------------------------------------
MonitorContent(item) == Strip(item.content)

\* the items the loop has still to save
MonitorPending ==
    { i \in 1..Len(chat_items) :
        /\ i \notin saved_message_ids
        /\ chat_items[i].role \in {"user", "assistant"}
        /\ MonitorContent(chat_items[i]) # <<>> }

\* the first of them, as the for loop meets the items in order
MonitorFirst == CHOOSE i \in MonitorPending : \A j \in MonitorPending : i <= j

MonitorSave(storeUp) ==
    /\ MonitorPending # {}
    /\ saved_message_ids' = saved_message_ids \cup {MonitorFirst}
    /\ conversation' =
          IF storeUp
          THEN AddConversation(conversation, current_mode, chat_items[MonitorFirst].role,
                               MonitorContent(chat_items[MonitorFirst]), now)
          ELSE conversation
    /\ UNCHANGED <<now, faults, current_mode, router_answer, agent_choice, router_raised,
                   turns, mode_state, chat_items, exceptRouter>>

\* what the user and the agent say in the session: each turn its own words,
\* bare, padded with white space, or white space only
TurnWords == <<"one", "two", "three", "four">>
TurnTexts(k) ==
    { <<Lo(TurnWords[k], 3)>>, <<Ws(1), Lo(TurnWords[k], 3), Ws(1)>>, <<Ws(k)>> }

NextMonitor ==
    \/ \E d \in {1} : Tick(d, MaxTime)
    \/ \E text \in TurnTexts(turns + 1), r \in {Said(basic), Said(linkedin), Raised},
          storeUp \in BOOLEAN :
          OnUserSpeechCommitted(text, r, storeUp)
    \/ \E text \in TurnTexts(turns + 1), storeUp \in BOOLEAN :
          OnAgentSpeechCommitted(text, storeUp)
    \/ \E storeUp \in BOOLEAN : MonitorSave(storeUp)

SpecMonitor == Init /\ [][NextMonitor]_vars

\* ------------------------------------------------------------------------
\* Session end: save_conversation_on_exit, run as a background task by each
\* of the two disconnect handlers.  A task runs from one await to the next:
\*   "idle"     no task in this slot yet
\*   "spawned"  created by asyncio.create_task, not yet run
\*   "reading"  past the already-saved check, awaiting the store reads
\*   "saving"   flag set, awaiting save_conversation
\*   "done"     returned
\* ------------------------------------------------------------------------
SaveRunning(t) == save_pc[t] \in {"reading", "saving"}

\* on_participant_disconnected: spawn the save task
OnParticipantDisconnected(t) ==
    /\ save_pc[t] = "idle"
    /\ save_pc' = [save_pc EXCEPT ![t] = "spawned"]
    /\ UNCHANGED <<now, faults, exceptSave, conversation_saved, save_found, save_calls, save_overlap,
                   save_messages>>

\* on_room_disconnected: spawn the save task (backup handler)
OnRoomDisconnected(t) ==
    /\ save_pc[t] = "idle"
    /\ save_pc' = [save_pc EXCEPT ![t] = "spawned"]
    /\ UNCHANGED <<now, faults, exceptSave, conversation_saved, save_found, save_calls, save_overlap,
                   save_messages>>

\* the task starts: return at once if the flag is set, else go and read the
\* store (await client.keys(...) suspends the task)
SaveCheckNoFlag(t) ==
    /\ save_pc[t] = "spawned"
    /\ save_pc' = [save_pc EXCEPT ![t] = "reading"]
    /\ save_overlap' = (save_overlap \/ \E u \in 1..MaxSaveTasks : SaveRunning(u))
    /\ UNCHANGED <<now, faults, exceptSave, conversation_saved, save_found, save_calls, save_messages>>
SaveCheck(t) ==
    /\ save_pc[t] = "spawned"
    /\ save_pc' = [save_pc EXCEPT ![t] = IF conversation_saved THEN "done" ELSE "reading"]
    /\ save_overlap' = (save_overlap \/ \E u \in 1..MaxSaveTasks : SaveRunning(u))
    /\ UNCHANGED <<now, faults, exceptSave, conversation_saved, save_found, save_calls, save_messages>>

\* all conversation lists of the store, merged
AllMessages == UNION { {conversation[ns][i] : i \in 1..Len(conversation[ns])} : ns \in AgentTypes }

\* KEYS conversation:* returns the keys of the lists that exist (a list
\* exists while it has an entry), in no particular order
ConversationKeys == { ns \in AgentTypes : conversation[ns] # <<>> }
KeyOrders ==
    { ks \in [1..Cardinality(ConversationKeys) -> ConversationKeys] :
        \A i, j \in DOMAIN ks : i # j => ks[i] # ks[j] }

\* all_messages as the loop over the keys builds it: LRANGE key 0 -1 of each
RECURSIVE CollectMessages(_)
CollectMessages(ks) ==
    IF ks = <<>> THEN <<>>
    ELSE LRange(conversation[Head(ks)], 0, -1) \o CollectMessages(Tail(ks))

\* all_messages.sort(key=timestamp): ascending, entries of equal timestamp
\* keep their order
InsertByTimestamp(sorted, m) ==
    LET k == Cardinality({ i \in 1..Len(sorted) : sorted[i].timestamp <= m.timestamp })
    IN  SubSeq(sorted, 1, k) \o <<m>> \o SubSeq(sorted, k + 1, Len(sorted))
RECURSIVE SortByTimestamp(_)
SortByTimestamp(list) ==
    IF list = <<>> THEN <<>>
    ELSE InsertByTimestamp(SortByTimestamp(SubSeq(list, 1, Len(list) - 1)), list[Len(list)])

\* the store reads return (or raise: the except clause logs and returns);
\* with messages to save, set the flag and call save_conversation
SaveRead(t, storeUp) ==
    /\ save_pc[t] = "reading"
    /\ IF storeUp /\ AllMessages # {}
       THEN /\ conversation_saved' = TRUE
            /\ save_calls' = save_calls + 1
            /\ save_found' = [save_found EXCEPT ![t] = TRUE]
            /\ save_pc' = [save_pc EXCEPT ![t] = "saving"]
            /\ \E ks \in KeyOrders : save_messages' = SortByTimestamp(CollectMessages(ks))
       ELSE /\ save_pc' = [save_pc EXCEPT ![t] = "done"]
            /\ UNCHANGED <<conversation_saved, save_calls, save_found, save_messages>>
    /\ UNCHANGED <<now, faults, exceptSave, save_overlap>>

\* save_conversation returns or raises (caught and logged)
SaveFinish(t) ==
    /\ save_pc[t] = "saving"
    /\ save_pc' = [save_pc EXCEPT ![t] = "done"]
    /\ UNCHANGED <<now, faults, exceptSave, conversation_saved, save_found, save_calls, save_overlap,
                   save_messages>>

NextSave ==
    \/ \E text \in Utterances, storeUp \in BOOLEAN : OnAgentSpeechCommitted(text, storeUp)
    \/ \E d \in {1} : Tick(d, MaxTime)
    \/ \E t \in 1..MaxSaveTasks : OnParticipantDisconnected(t)
    \/ \E t \in 1..MaxSaveTasks : OnRoomDisconnected(t)
    \/ \E t \in 1..MaxSaveTasks : SaveCheck(t)
    \/ \E t \in 1..MaxSaveTasks, storeUp \in BOOLEAN : SaveRead(t, storeUp)
    \/ \E t \in 1..MaxSaveTasks : SaveFinish(t)

SpecSave == Init /\ [][NextSave]_vars

\* ------------------------------------------------------------------------
\* Two sessions on one store: each job runs the entrypoint with its own
\* UnifiedAgent, its own saved flag and the same SharedState keys.  The other
\* session's hook logs a reply under the mode that session is in.
\* ------------------------------------------------------------------------
OtherWords == <<"alpha", "beta", "gamma">>

OtherSessionSpeech(mode, storeUp) ==
    /\ other_turns < MaxOtherTurns
    /\ other_turns' = other_turns + 1
    /\ conversation' =
          IF storeUp
          THEN AddConversation(conversation, mode, "assistant", OtherWords[other_turns + 1], now)
          ELSE conversation
    /\ UNCHANGED <<now, faults, current_mode, router_answer, agent_choice, router_raised,
                   turns, mode_state, saveVars, cooldownVars, dedupVars, postVars, xVars,
                   wfVars, logVars, normVars, tokenVars, monitorVars>>

NextArchive ==
    \/ NextSave
    \/ \E mode \in {basic, linkedin}, storeUp \in BOOLEAN : OtherSessionSpeech(mode, storeUp)

SpecArchive == Init /\ [][NextArchive]_vars

\* ------------------------------------------------------------------------
\* Cooldown guard operations
\* ------------------------------------------------------------------------
\* set_linkedin_cooldown, first await: SET linkedin_post_cooldown <time.time()>
SetCooldownSet ==
    /\ cooldown_pc = "idle"
    /\ cooldown_key' = KeySet(now)
    /\ cooldown_set_at' = now
    /\ cooldown_pc' = "expire"
    /\ UNCHANGED <<now, faults, exceptCooldown, cooldown_check>>

\* set_linkedin_cooldown, second await: EXPIRE linkedin_post_cooldown 60
SetCooldownExpire ==
    /\ cooldown_pc = "expire"
    /\ cooldown_key' = KeyExpire(cooldown_key, CooldownExpiry, now)
    /\ cooldown_pc' = "idle"
    /\ UNCHANGED <<now, faults, exceptCooldown, cooldown_set_at, cooldown_check>>

\* check_linkedin_cooldown(cooldown_seconds)
CheckLinkedinCooldown(cooldown_seconds) ==
    /\ cooldown_pc = "idle"
    /\ cooldown_check' =
          [done |-> TRUE, interval |-> cooldown_seconds, at |-> now,
           since |-> cooldown_set_at,
           allowed |-> CheckCooldown(cooldown_key, cooldown_seconds, now).allowed,
           remaining |-> CheckCooldown(cooldown_key, cooldown_seconds, now).remaining]
    /\ UNCHANGED <<now, faults, exceptCooldown, cooldown_key, cooldown_pc, cooldown_set_at>>

NextCooldown ==
    \/ \E d \in {10, 30} : Tick(d, CooldownHorizon)
    \/ SetCooldownSet
    \/ SetCooldownExpire
    \/ \E cd \in CooldownIntervals : CheckLinkedinCooldown(cd)

SpecCooldown == Init /\ [][NextCooldown]_vars

\* ------------------------------------------------------------------------
\* Duplicate guard operations: check_linkedin_duplicate, a call per slot
\*   "idle"   not called yet
\*   "setex"  EXISTS answered 0; the SETEX is still to be sent
\*   "done"   returned
\* ------------------------------------------------------------------------
\* the call up to the answer of `await client.exists(dedup_key)`
DupExists(c, post_content, window_seconds) ==
    /\ dup_pc[c] = "idle"
    /\ dup_call' = [dup_call EXCEPT ![c] =
          [content |-> post_content, window |-> window_seconds, start |-> now,
           recorded |-> -1]]
    /\ IF KeyLive(dedup_keys[ContentHash(post_content)], now)
       THEN /\ dup_pc' = [dup_pc EXCEPT ![c] = "done"]
            /\ dup_result' = [dup_result EXCEPT ![c] = TRUE]
       ELSE /\ dup_pc' = [dup_pc EXCEPT ![c] = "setex"]
            /\ UNCHANGED dup_result
    /\ UNCHANGED <<now, faults, exceptDedup, dedup_keys>>

\* `await client.setex(dedup_key, window_seconds, "1")`, then return False
DupSetex(c) ==
    /\ dup_pc[c] = "setex"
    /\ dedup_keys' = [dedup_keys EXCEPT ![ContentHash(dup_call[c].content)] =
          KeySetEx(1, dup_call[c].window, now)]
    /\ dup_pc' = [dup_pc EXCEPT ![c] = "done"]
    /\ dup_result' = [dup_result EXCEPT ![c] = FALSE]
    /\ dup_call' = [dup_call EXCEPT ![c].recorded = now]
    /\ UNCHANGED <<now, faults, exceptDedup>>

NextDedup ==
    \/ \E d \in {30} : Tick(d, DedupHorizon)
    \/ \E c \in 1..MaxDupCalls, post_content \in Contents :
          DupExists(c, post_content, DedupWindow)
    \/ \E c \in 1..MaxDupCalls : DupSetex(c)

SpecDedup == Init /\ [][NextDedup]_vars

\* the calls made one at a time: the next one starts after the previous one
\* has returned
DedupWindows == {30, DedupWindow}

NextDedupSeq ==
    \/ \E d \in {30} : Tick(d, DedupHorizon)
    \/ \E c \in 1..MaxDupCalls, post_content \in Contents, window_seconds \in DedupWindows :
          /\ \A e \in 1..MaxDupCalls : dup_pc[e] # "setex"
          /\ \A e \in 1..MaxDupCalls : e < c => dup_pc[e] # "idle"
          /\ DupExists(c, post_content, window_seconds)
    \/ \E c \in 1..MaxDupCalls : DupSetex(c)

SpecDedupSeq == Init /\ [][NextDedupSeq]_vars

\* ------------------------------------------------------------------------
\* LinkedIn posting tool: post_to_linkedin, a call per slot, run from one
\* await to the next
\*   "idle"    not called yet
\*   "read"    current_time taken, awaiting get_state(last_post_data)
\*   "image"   checks passed, awaiting image generation
\*   "push"    awaiting push_task
\*   "store"   task pushed, awaiting set_state(last_post_data)
\*   "store2"  awaiting set_state(last_post)
\*   "done"    returned, or raised
\* ------------------------------------------------------------------------
PostInFlight(c) == post_pc[c] \notin {"idle", "done"}

\* a call of the store, the queue or the image service fails
Fault(up) ==
    IF up THEN UNCHANGED faults
    ELSE faults < MaxFaults /\ faults' = faults + 1

\* the call returns (or raises): its locals are gone
PostReturn(c, result) ==
    /\ post_pc' = [post_pc EXCEPT ![c] = "done"]
    /\ post_result' = [post_result EXCEPT ![c] = result]
    /\ post_local' = [post_local EXCEPT ![c].recent_posts = <<>>]

PostToLinkedin(c, post_content, image_description) ==
    /\ post_pc[c] = "idle"
    /\ \A e \in 1..MaxPostCalls : e < c => post_pc[e] # "idle"
    /\ post_local' = [post_local EXCEPT ![c] =
          [NoPostLocal EXCEPT !.post_content = post_content,
                              !.image_description = image_description,
                              !.current_time = now]]
    /\ post_pc' = [post_pc EXCEPT ![c] = "read"]
    /\ post_overlap' = [post_overlap EXCEPT ![c] = {e \in 1..MaxPostCalls : PostInFlight(e)}]
    /\ UNCHANGED <<now, faults, exceptPost, last_post_data, last_post, task_queue, post_result>>

\* get_state answers (or the store is down and it raises); cooldown check,
\* duplicate check
PostRead(c, storeUp) ==
    /\ post_pc[c] = "read"
    /\ Fault(storeUp)
    /\ LET l == post_local[c]
           data == GetState(last_post_data, now)
           verdict == PostGuard(data, l.post_content, l.current_time)
       IN  IF ~storeUp THEN PostReturn(c, "raised")
           ELSE IF verdict # "go" THEN PostReturn(c, verdict)
           ELSE /\ post_pc' = [post_pc EXCEPT ![c] =
                      IF l.image_description # NoImage THEN "image" ELSE "push"]
                /\ post_local' = [post_local EXCEPT
                      ![c].recent_posts = data.recent_posts]
                /\ UNCHANGED post_result
    /\ UNCHANGED <<now, exceptPost, last_post_data, last_post, task_queue, post_overlap>>

\* image generation answers with a url, with nothing, or raises
PostImage(c, outcome) ==
    /\ post_pc[c] = "image"
    /\ Fault(outcome # "raise")
    /\ IF outcome = "raise" THEN PostReturn(c, "raised")
       ELSE /\ post_pc' = [post_pc EXCEPT ![c] = "push"]
            /\ post_local' = [post_local EXCEPT ![c].image_url = outcome]
            /\ UNCHANGED post_result
    /\ UNCHANGED <<now, exceptPost, last_post_data, last_post, task_queue, post_overlap>>

\* push_task: LPUSH of the linkedin_post task (or the queue is down)
PostPush(c, queueUp) ==
    /\ post_pc[c] = "push"
    /\ Fault(queueUp)
    /\ IF queueUp
       THEN /\ task_queue' = LPush(task_queue,
                  [type |-> "linkedin_post", post_text |-> post_local[c].post_content,
                   image_url |-> post_local[c].image_url,
                   timestamp |-> post_local[c].current_time])
            /\ post_pc' = [post_pc EXCEPT ![c] = "store"]
            /\ post_local' = [post_local EXCEPT ![c].pushed = TRUE]
            /\ UNCHANGED post_result
       ELSE /\ PostReturn(c, "raised")
            /\ UNCHANGED task_queue
    /\ UNCHANGED <<now, exceptPost, last_post_data, last_post, post_overlap>>

\* the record is appended to the list read earlier and written back
PostStore(c, storeUp) ==
    /\ post_pc[c] = "store"
    /\ Fault(storeUp)
    /\ LET l == post_local[c]
           preview == PostPreview(l.post_content)
           recent == AppendRecent(l.recent_posts,
                        [preview |-> preview, timestamp |-> l.current_time, call_id |-> c])
       IN  IF storeUp
           THEN /\ last_post_data' = [set |-> TRUE, timestamp |-> l.current_time,
                                      recent_posts |-> recent,
                                      last_post_preview |-> preview,
                                      expire |-> StateExpiry(NoTtl, now)]
                /\ post_local' = [post_local EXCEPT ![c].recent_posts = recent]
                /\ post_pc' = [post_pc EXCEPT ![c] = "store2"]
                /\ UNCHANGED post_result
           ELSE /\ PostReturn(c, "raised")
                /\ UNCHANGED last_post_data
    /\ UNCHANGED <<now, exceptPost, last_post, task_queue, post_overlap>>

\* the backward-compatible last_post key is written; the call returns
PostStore2(c, storeUp) ==
    /\ post_pc[c] = "store2"
    /\ Fault(storeUp)
    /\ IF storeUp
       THEN /\ last_post' = [set |-> TRUE, timestamp |-> post_local[c].current_time,
                             preview |-> PostPreview(post_local[c].post_content)]
            /\ PostReturn(c, "queued")
       ELSE /\ PostReturn(c, "raised")
            /\ UNCHANGED last_post
    /\ UNCHANGED <<now, exceptPost, last_post_data, task_queue, post_overlap>>

\* the tool calls the model makes: a text, with or without an image
PostRequests ==
    { <<c, NoImage>> : c \in Contents } \cup { <<<<Lo("bye", 3)>>, "a rocket">> }

PostSteps ==
    \/ \E d \in {10} : Tick(d, PostHorizon)
    \/ \E c \in 1..MaxPostCalls, storeUp \in BOOLEAN : PostRead(c, storeUp)
    \/ \E c \in 1..MaxPostCalls, outcome \in {"url", NoImage, "raise"} : PostImage(c, outcome)
    \/ \E c \in 1..MaxPostCalls, queueUp \in BOOLEAN : PostPush(c, queueUp)
    \/ \E c \in 1..MaxPostCalls, storeUp \in BOOLEAN : PostStore(c, storeUp)
    \/ \E c \in 1..MaxPostCalls, storeUp \in BOOLEAN : PostStore2(c, storeUp)

\* the model may call the tool again while earlier calls are in flight
NextPost ==
    \/ PostSteps
    \/ \E c \in 1..MaxPostCalls, r \in PostRequests :
          /\ Cardinality({e \in 1..MaxPostCalls : PostInFlight(e)}) < MaxInFlight
          /\ PostToLinkedin(c, r[1], r[2])

SpecPost == Init /\ [][NextPost]_vars

\* tool calls made one at a time
NextPostSeq ==
    \/ PostSteps
    \/ \E c \in 1..MaxPostCalls, r \in PostRequests :
          /\ \A e \in 1..MaxPostCalls : ~PostInFlight(e)
          /\ PostToLinkedin(c, r[1], r[2])

SpecPostSeq == Init /\ [][NextPostSeq]_vars

\* ------------------------------------------------------------------------
\* The orchestrator's tool: UnifiedAgent.post_to_linkedin.  It creates a
\* LinkedInAgent and calls its _post_to_linkedin_impl if it has one.
\* ------------------------------------------------------------------------
\* hasattr(linkedin_agent, '_post_to_linkedin_impl'): LinkedInAgent defines
\* post_to_linkedin and no method of that name
HasPostToLinkedinImpl == FALSE

UnifiedPostResult(router) ==
    IF ~router THEN "Router not available"
    ELSE IF HasPostToLinkedinImpl THEN "delegated"
    ELSE "LinkedIn posting not available"

UnifiedPostToLinkedin(c, post_content, image_description, router) ==
    /\ post_pc[c] = "idle"
    /\ \A e \in 1..MaxPostCalls : e < c => post_pc[e] # "idle"
    /\ post_local' = [post_local EXCEPT ![c] =
          [NoPostLocal EXCEPT !.post_content = post_content,
                              !.image_description = image_description,
                              !.current_time = now]]
    /\ post_pc' = [post_pc EXCEPT ![c] = "done"]
    /\ post_result' = [post_result EXCEPT ![c] = UnifiedPostResult(router)]
    /\ UNCHANGED <<now, faults, exceptPost, last_post_data, last_post, task_queue, post_overlap>>

NextUnified ==
    \/ \E d \in {10} : Tick(d, PostHorizon)
    \/ \E c \in 1..MaxPostCalls, r \in PostRequests, router \in BOOLEAN :
          UnifiedPostToLinkedin(c, r[1], r[2], router)

SpecUnified == Init /\ [][NextUnified]_vars

\* tool calls made one at a time, the store and the queue up, on top of the
\* record earlier sessions left
InitPostLog ==
    /\ now = 0
    /\ faults = 0
    /\ InitRouter
    /\ InitSave
    /\ InitCooldown
    /\ InitDedup
    /\ \E k \in PostPrefills :
          /\ last_post_data = EarlierPostData(k)
          /\ last_post = [set |-> k > 0, timestamp |-> 0,
                          preview |-> EarlierPostData(k).last_post_preview]
    /\ task_queue = <<>>
    /\ post_pc = [c \in 1..MaxPostCalls |-> "idle"]
    /\ post_local = [c \in 1..MaxPostCalls |-> NoPostLocal]
    /\ post_result = [c \in 1..MaxPostCalls |-> "none"]
    /\ post_overlap = [c \in 1..MaxPostCalls |-> {}]
    /\ InitX
    /\ InitNorm
    /\ InitToken
    /\ InitMonitor
    /\ InitWf
    /\ InitLogCalls

NextPostLog ==
    \/ \E d \in {10} : Tick(d, PostHorizon)
    \/ \E c \in 1..MaxPostCalls, content \in Contents :
          /\ \A e \in 1..MaxPostCalls : ~PostInFlight(e)
          /\ PostToLinkedin(c, content, NoImage)
    \/ \E c \in 1..MaxPostCalls : PostRead(c, TRUE)
    \/ \E c \in 1..MaxPostCalls : PostPush(c, TRUE)
    \/ \E c \in 1..MaxPostCalls : PostStore(c, TRUE)
    \/ \E c \in 1..MaxPostCalls : PostStore2(c, TRUE)

SpecPostLog == InitPostLog /\ [][NextPostLog]_vars

\* ------------------------------------------------------------------------
\* Duplicate detection as a function of two contents: post_to_linkedin
\* compares previews, check_linkedin_duplicate compares content hashes
\* ------------------------------------------------------------------------
NormContents ==
    Contents \cup
    { <<>>, <<Ws(2)>>,
      <<Lo("long", PreviewLength)>>, <<Up("long", PreviewLength)>>,
      <<Ws(1), Lo("long", PreviewLength)>>,
      <<Lo("long", PreviewLength), Lo("tail", 4)>>,
      <<Lo("long", PreviewLength - 1)>>,
      <<Lo("long", PreviewLength - 1), Ws(1), Lo("tail", 4)>> }

InitCompare ==
    /\ now = 0
    /\ faults = 0
    /\ InitRouter
    /\ InitSave
    /\ InitCooldown
    /\ InitDedup
    /\ InitPost
    /\ InitX
    /\ \E a \in NormContents, b \in NormContents :
          norm = [NoComparison EXCEPT !.a = a, !.b = b]
    /\ InitToken
    /\ InitMonitor
    /\ InitWf
    /\ InitLogCalls

\* b is submitted after a was recorded
Compare ==
    /\ ~norm.done
    /\ norm' = [norm EXCEPT !.done = TRUE,
                            !.by_post = (PostPreview(norm.a) = PostPreview(norm.b)),
                            !.by_check = (ContentHash(norm.a) = ContentHash(norm.b))]
    /\ UNCHANGED <<now, faults, exceptNorm>>

NextCompare == Compare

SpecCompare == InitCompare /\ [][NextCompare]_vars

\* ------------------------------------------------------------------------
\* Token server: _token_handler and the _create_room_and_dispatch tasks it
\* starts, a task per slot, run from one await to the next
\*   "idle"       no task in this slot yet
\*   "create"     created by asyncio.create_task, awaiting create_room
\*   "sleep"      awaiting asyncio.sleep(0.3)
\*   "dispatch"   awaiting create_dispatch
\*   "succeeded"  returned after the dispatch
\*   "failed"     returned from the except branch
\* ------------------------------------------------------------------------
DispatchPending(t) == dispatch_pc[t] \in {"create", "sleep", "dispatch"}

\* `if room not in self._dispatched_rooms`.  (First a variant that
\* dispatches on every request.)
ShouldDispatchAlways(rooms, room) == TRUE
ShouldDispatch(rooms, room) == room \notin rooms

\* the handler has no await: it runs in one step.  tokenOk: the token could
\* be generated (otherwise the handler answers 500 before it dispatches)
TokenHandler(room, tokenOk) ==
    /\ token_requests < MaxTokenRequests
    /\ token_requests' = token_requests + 1
    /\ token_last' = [room |-> room, known |-> room \in dispatched_rooms,
                      status |-> IF tokenOk THEN 200 ELSE 500]
    /\ IF tokenOk /\ ShouldDispatch(dispatched_rooms, room)
       THEN \E t \in 1..MaxDispatchTasks :
               /\ dispatch_pc[t] = "idle"
               /\ \A e \in 1..MaxDispatchTasks : e < t => dispatch_pc[e] # "idle"
               /\ dispatched_rooms' = dispatched_rooms \cup {room}
               /\ dispatch_pc' = [dispatch_pc EXCEPT ![t] = "create"]
               /\ dispatch_room' = [dispatch_room EXCEPT ![t] = room]
       ELSE UNCHANGED <<dispatched_rooms, dispatch_pc, dispatch_room>>
    /\ UNCHANGED <<now, faults, exceptToken>>

\* create_room answers, or raises ("room may already exist": passed over)
DispatchCreateRoom(t, ok) ==
    /\ dispatch_pc[t] = "create"
    /\ dispatch_pc' = [dispatch_pc EXCEPT ![t] = "sleep"]
    /\ UNCHANGED <<now, faults, exceptToken, dispatched_rooms, dispatch_room, token_requests,
                   token_last>>

DispatchSleep(t) ==
    /\ dispatch_pc[t] = "sleep"
    /\ dispatch_pc' = [dispatch_pc EXCEPT ![t] = "dispatch"]
    /\ UNCHANGED <<now, faults, exceptToken, dispatched_rooms, dispatch_room, token_requests,
                   token_last>>

\* create_dispatch answers, or raises: the room is removed from the set
DispatchCreate(t, ok) ==
    /\ dispatch_pc[t] = "dispatch"
    /\ dispatch_pc' = [dispatch_pc EXCEPT ![t] = IF ok THEN "succeeded" ELSE "failed"]
    /\ dispatched_rooms' = IF ok THEN dispatched_rooms
                           ELSE dispatched_rooms \ {dispatch_room[t]}
    /\ UNCHANGED <<now, faults, exceptToken, dispatch_room, token_requests, token_last>>

NextToken ==
    \/ \E room \in Rooms, tokenOk \in BOOLEAN : TokenHandler(room, tokenOk)
    \/ \E t \in 1..MaxDispatchTasks, ok \in BOOLEAN : DispatchCreateRoom(t, ok)
    \/ \E t \in 1..MaxDispatchTasks : DispatchSleep(t)
    \/ \E t \in 1..MaxDispatchTasks, ok \in BOOLEAN : DispatchCreate(t, ok)

SpecToken == Init /\ [][NextToken]_vars

\* ------------------------------------------------------------------------
\* X posting tool: UnifiedAgent.post_to_x -> XAgent._post_to_x_impl, a call
\* per slot, run from one await to the next
\*   "idle"   not called yet
\*   "image"  awaiting image generation
\*   "push"   awaiting push_task
\*   "done"   returned
\* ------------------------------------------------------------------------
XInFlight(c) == x_pc[c] \notin {"idle", "done"}

PostToX(c, post_content, image_description) ==
    /\ x_pc[c] = "idle"
    /\ \A e \in 1..MaxXCalls : e < c => x_pc[e] # "idle"
    /\ x_call' = [x_call EXCEPT ![c] =
          [NoXCall EXCEPT !.post_content = post_content,
                          !.image_description = image_description,
                          !.start = now]]
    /\ x_pc' = [x_pc EXCEPT ![c] = IF image_description # NoImage THEN "image" ELSE "push"]
    /\ UNCHANGED <<now, faults, exceptX, task_queue, x_result>>

\* image generation answers with a url or with nothing, or raises: caught
XImage(c, outcome) ==
    /\ x_pc[c] = "image"
    /\ Fault(outcome # "raise")
    /\ x_call' = [x_call EXCEPT ![c].image_url = IF outcome = "raise" THEN NoImage ELSE outcome]
    /\ x_pc' = [x_pc EXCEPT ![c] = "push"]
    /\ UNCHANGED <<now, exceptX, task_queue, x_result>>

\* push_task: LPUSH of the x_post task; a queue failure is caught and the
\* call returns the mock answer
XPush(c, queueUp) ==
    /\ x_pc[c] = "push"
    /\ Fault(queueUp)
    /\ IF queueUp
       THEN /\ task_queue' = LPush(task_queue,
                  [type |-> "x_post", post_text |-> x_call[c].post_content,
                   image_url |-> x_call[c].image_url, timestamp |-> now])
            /\ x_call' = [x_call EXCEPT ![c].pushed = TRUE]
            /\ x_result' = [x_result EXCEPT ![c] = "queued"]
       ELSE /\ x_result' = [x_result EXCEPT ![c] = "prepared"]
            /\ UNCHANGED <<task_queue, x_call>>
    /\ x_pc' = [x_pc EXCEPT ![c] = "done"]
    /\ UNCHANGED <<now, exceptX>>

\* the tool calls are made one at a time
NextX ==
    \/ \E d \in {5} : Tick(d, XHorizon)
    \/ \E c \in 1..MaxXCalls, r \in PostRequests :
          /\ \A e \in 1..MaxXCalls : ~XInFlight(e)
          /\ PostToX(c, r[1], r[2])
    \/ \E c \in 1..MaxXCalls, outcome \in {"url", NoImage, "raise"} : XImage(c, outcome)
    \/ \E c \in 1..MaxXCalls, queueUp \in BOOLEAN : XPush(c, queueUp)

SpecX == Init /\ [][NextX]_vars

\* ------------------------------------------------------------------------
\* Posting workflow: the runner
\* ------------------------------------------------------------------------
\* start(user_request): the graph runs draft_post and stops at
\* await_user_input or at END
Start(user_request, r) ==
    /\ wf_calls' = wf_calls + 1
    /\ wf_last' = [op |-> "start", stage |-> wf.stage, intent |-> r,
                   complete |-> IsComplete(wf, wf_complete), guard_rejects |-> FALSE,
                   handled |-> NoUtterance, image |-> wf.image_description,
                   llm_calls |-> IF r.kind = "noclient" THEN 0 ELSE 1,
                   guard_consults |-> 0,
                   revised_from |-> NoRevision]
    /\ LET out == DraftPost(InitialState(user_request), r)
       IN  IF out.raised
           THEN /\ wf_raised' = TRUE
                /\ UNCHANGED <<wf, wf_return>>
           ELSE /\ wf_raised' = FALSE
                /\ wf' = out.state
                /\ wf_return' = Or(GetLastResponse(out.state), "I'm working on your post...")
    /\ UNCHANGED <<now, faults, exceptWf, wf_complete>>

\* continue_with(user_message); intent and r are the outcomes of the model
\* calls it makes
ContinueWith(u, intent, r) ==
    /\ wf_calls' = wf_calls + 1
    /\ wf_last' = [op |-> "continue", stage |-> wf.stage, intent |-> intent,
                   complete |-> IsComplete(wf, wf_complete),
                   guard_rejects |-> GuardRejects(wf.draft_content),
                   handled |-> IF NoActiveWorkflow(wf) \/ IsComplete(wf, wf_complete)
                               THEN NoUtterance ELSE u,
                   image |-> wf.image_description,
                   llm_calls |-> IF NoActiveWorkflow(wf) \/ IsComplete(wf, wf_complete)
                                    \/ wf.stage = "image_review"
                                 THEN 0 ELSE ReviewCalls(intent, r),
                   \* neither review_draft, handle_image_request nor
                   \* execute_post calls a cooldown or duplicate check
                   guard_consults |-> 0,
                   \* the revision call, if one was made: the draft its
                   \* prompt was built from
                   revised_from |->
                      IF ~NoActiveWorkflow(wf) /\ ~IsComplete(wf, wf_complete)
                            /\ wf.stage # "image_review" /\ ReviewCalls(intent, r) = 2
                      THEN [made |-> TRUE, draft |-> RevisionInput(wf)]
                      ELSE NoRevision]
    /\ IF NoActiveWorkflow(wf)
       THEN /\ wf_return' = "No active workflow. Please start a new post request."
            /\ wf_raised' = FALSE
            /\ UNCHANGED <<wf, wf_complete>>
       ELSE IF IsComplete(wf, wf_complete)
       THEN /\ wf_return' = Or(wf.result, "Workflow already complete.")
            /\ wf_raised' = FALSE
            /\ UNCHANGED <<wf, wf_complete>>
       ELSE LET st == [wf EXCEPT !.messages = Append(@, Human(u.text))]
            IN  IF st.stage = "image_review"
                THEN LET img == HandleImageRequest(st, u)
                         fin == IF img.stage = "confirmed" THEN ExecutePost(img) ELSE img
                     IN  /\ wf' = fin
                         /\ wf_complete' = (wf_complete \/ img.stage = "confirmed")
                         /\ wf_raised' = FALSE
                         /\ wf_return' = Or(GetLastResponse(fin), Or(fin.result, "Processing..."))
                ELSE LET rev == ReviewDraft(st, intent, r)
                         fin == IF rev.state.stage = "confirmed"
                                THEN ExecutePost(rev.state) ELSE rev.state
                     IN  IF rev.raised
                         THEN /\ wf' = st
                              /\ wf_raised' = TRUE
                              /\ UNCHANGED <<wf_complete, wf_return>>
                         ELSE /\ wf' = fin
                              /\ wf_complete' =
                                    (wf_complete \/ rev.state.stage \in {"confirmed", "cancelled"})
                              /\ wf_raised' = FALSE
                              /\ wf_return' =
                                    Or(GetLastResponse(fin), Or(fin.result, "Processing..."))
    /\ UNCHANGED <<now, faults, exceptWf>>

\* reset()
Reset ==
    /\ wf' = NoWorkflow
    /\ wf_complete' = FALSE
    /\ wf_last' = [wf_last EXCEPT !.op = "reset"]
    /\ UNCHANGED <<now, faults, exceptWf, wf_return, wf_raised, wf_calls>>

\* the calls made on the runner, at most `calls` of them
StartCall(calls) ==
    /\ wf_calls < calls
    /\ \E t \in Topics, r \in DraftAnswers : Start(t, r)

ContinueCall(calls) ==
    /\ wf_calls < calls
    /\ \E u \in WfUtterances, intent \in IntentAnswers, r \in DraftAnswers :
          \* the revision call is only made for EDIT and unknown words
          /\ (intent.kind # "text"
                \/ Upper(Strip(intent.text)) \in {APPROVE, ADD_IMAGE, CANCEL})
               => r = Raised
          /\ ContinueWith(u, intent, r)

ResetCall(calls) ==
    /\ wf_calls < calls
    /\ wf.started
    /\ Reset

\* the image sub-negotiation: every feedback on the draft asks for an image,
\* and the user's words may contain a keyword without meaning it
ImageUtterances ==
    WfUtterances \cup
    { [text |-> "a good-looking robot instead", words |-> {"good"}],
      [text |-> "a snowy mountain", words |-> {"no"}] }

ImageCall(calls) ==
    /\ wf_calls < calls
    /\ \E u \in ImageUtterances, intent \in {Said(<<Mx("add_image", 9)>>)} :
          ContinueWith(u, intent, Raised)

NextWfImage ==
    \/ StartCall(MaxImageCalls)
    \/ ImageCall(MaxImageCalls)

SpecWfImage == Init /\ [][NextWfImage]_vars

\* the runner alone
NextWfRunner ==
    \/ StartCall(MaxRunnerCalls)
    \/ ContinueCall(MaxRunnerCalls)
    \/ ResetCall(MaxRunnerCalls)

SpecWfRunner == Init /\ [][NextWfRunner]_vars

\* the workflow, next to tool calls of post_to_linkedin made one at a time
NextWf ==
    \/ \E d \in {10} : Tick(d, WfHorizon)
    \/ StartCall(MaxWfCalls)
    \/ ContinueCall(MaxWfCalls)
    \/ PostToLinkedin(1, <<Ws(1), Mx("hello", 5), Ws(2)>>, NoImage)
    \/ PostRead(1, TRUE)
    \/ PostPush(1, TRUE)
    \/ PostStore(1, TRUE)
    \/ PostStore2(1, TRUE)

SpecWf == Init /\ [][NextWf]_vars

\* ------------------------------------------------------------------------
\* Conversation log: add_conversation, a call per slot, run from one await
\* to the next, and get_conversation_history
\*   "idle"  not called yet
\*   "trim"  LPUSH done; the LTRIM is still to be sent
\*   "done"  returned
\* ------------------------------------------------------------------------
\* the call up to the answer of `await client.lpush(...)`
ConvPush(c, ns) ==
    /\ log_pc[c] = "idle"
    /\ \A e \in 1..MaxLogCalls : e < c => log_pc[e] # "idle"
    /\ LET entry == Entry(ns, LogRoles[c], LogMessages[c], now)
       IN  /\ log_call' = [log_call EXCEPT ![c] = [ns |-> ns, entry |-> entry]]
           /\ conversation' = [conversation EXCEPT ![ns] = LPush(@, entry)]
           /\ log_pushed' = [log_pushed EXCEPT ![ns] = LPush(@, entry)]
    /\ log_pc' = [log_pc EXCEPT ![c] = "trim"]
    /\ log_prev' = [op |-> "push", c |-> c]
    /\ UNCHANGED <<now, faults, exceptLog, history>>

\* `await client.ltrim(conversation_key, 0, 99)`, then return
ConvTrim(c) ==
    /\ log_pc[c] = "trim"
    /\ conversation' = [conversation EXCEPT ![log_call[c].ns] = LTrim(@, ConversationLimit - 1)]
    /\ log_pc' = [log_pc EXCEPT ![c] = "done"]
    /\ log_prev' = [op |-> "trim", c |-> c]
    /\ UNCHANGED <<now, faults, exceptLog, log_call, log_pushed, history>>

\* get_conversation_history(ns, limit)
GetHistory(ns, limit) ==
    /\ history' = [done |-> TRUE, ns |-> ns, limit |-> limit, prev |-> log_prev,
                   result |-> GetConversationHistory(conversation, ns, limit)]
    /\ log_prev' = [op |-> "get", c |-> 0]
    /\ UNCHANGED <<now, faults, exceptLog, conversation, log_pc, log_call, log_pushed>>

NextLog ==
    \/ \E c \in 1..MaxLogCalls, ns \in LogNamespaces : ConvPush(c, ns)
    \/ \E c \in 1..MaxLogCalls : ConvTrim(c)
    \/ \E ns \in LogNamespaces, limit \in HistoryLimits : GetHistory(ns, limit)

SpecLog == InitLog /\ [][NextLog]_vars

\* ========================================================================
\* Claims
\* ========================================================================

C7_ArchiveAtMostOnce == save_calls <= 1

\* ------------------------------------------------------------------------
\* C8 as stated: when the save tasks have run one after the other (each
\* starting after the previous one returned) and there were at least two,
\* save_conversation was called exactly once.
\* ------------------------------------------------------------------------
SaveTasksDone == {t \in 1..MaxSaveTasks : save_pc[t] = "done"}

C8_ExactlyOnceSequential ==
    (~save_overlap /\ Cardinality(SaveTasksDone) >= 2) => save_calls = 1

\* ------------------------------------------------------------------------
\* C8 amended: save tasks that run one after the other call
\* save_conversation at most once in total, and exactly once as soon as one
\* of them has read a non-empty transcript, whether or not that
\* save_conversation call succeeded.
\* ------------------------------------------------------------------------
C8_AtMostOnceSequential ==
    ~save_overlap =>
        /\ save_calls <= 1
        /\ (\E t \in 1..MaxSaveTasks : save_found[t]) => save_calls = 1

\* two tasks ran one after the other; the first saved, the second skipped
C8_Witness ==
    /\ ~save_overlap
    /\ Cardinality(SaveTasksDone) >= 2
    /\ \E t \in 1..MaxSaveTasks : save_found[t]
    /\ \E t \in 1..MaxSaveTasks : save_pc[t] = "done" /\ ~save_found[t]
    /\ save_calls = 1

\* ------------------------------------------------------------------------
\* C1: of the check_linkedin_duplicate calls made with identical content
\* within the dedup window of one another, however they interleave, exactly
\* one returns False (not a duplicate) and every other returns True.
\* ------------------------------------------------------------------------
DupDone(post_content) ==
    {c \in 1..MaxDupCalls : dup_pc[c] = "done" /\ dup_call[c].content = post_content}
DupInFlight(post_content) ==
    {c \in 1..MaxDupCalls : dup_pc[c] = "setex" /\ dup_call[c].content = post_content}
DupWithinWindow(S) ==
    \A c \in S, e \in S : dup_call[e].start - dup_call[c].start < DedupWindow
\* no call was made with another content of the same hash
DupOnlyContent(post_content) ==
    \A c \in 1..MaxDupCalls :
        (dup_pc[c] # "idle" /\ ContentHash(dup_call[c].content) = ContentHash(post_content))
        => dup_call[c].content = post_content

C1_ExactlyOneNotDuplicate ==
    \A post_content \in Contents :
        (/\ DupDone(post_content) # {}
         /\ DupInFlight(post_content) = {}
         /\ DupOnlyContent(post_content)
         /\ DupWithinWindow(DupDone(post_content)))
        => Cardinality({c \in DupDone(post_content) : ~dup_result[c]}) = 1

\* ------------------------------------------------------------------------
\* C6: after set_linkedin_cooldown at time t0, check_linkedin_cooldown(m) at
\* time t >= t0 returns (False, remaining > 0) when t - t0 < m and (True, 0)
\* when t - t0 >= m, for every interval m.
\* ------------------------------------------------------------------------
C6_CooldownByInterval ==
    (cooldown_check.done /\ cooldown_check.since >= 0)
    => IF cooldown_check.at - cooldown_check.since < cooldown_check.interval
       THEN ~cooldown_check.allowed /\ cooldown_check.remaining > 0
       ELSE cooldown_check.allowed /\ cooldown_check.remaining = 0

\* ------------------------------------------------------------------------
\* C2: when post_to_linkedin is invoked again with the same content while an
\* earlier invocation is still in flight, at most one of the two pushes a
\* linkedin_post task.
\* ------------------------------------------------------------------------
C2_OverlappingPostsPushOnce ==
    \A c \in 1..MaxPostCalls, e \in 1..MaxPostCalls :
        (/\ e \in post_overlap[c]
         /\ post_local[c].post_content = post_local[e].post_content)
        => ~(post_local[c].pushed /\ post_local[e].pushed)

C10_StartDraftNonEmptyOrFailed ==
    (wf_last.op = "start" /\ ~wf_raised)
    => \/ /\ wf.stage = "reviewing"
          /\ wf.draft_content.some
          /\ wf.draft_content.text # <<>>
       \/ /\ wf.stage = "cancelled"
          /\ wf.error # NoneStr

\* a continue_with call that reached review_draft in stage reviewing
ReviewedInReviewing ==
    /\ wf_last.op = "continue"
    /\ wf_last.stage = "reviewing"
    /\ ~wf_last.complete

\* the classification outcome is exactly APPROVE after strip and upper
IsApprove(intent) == intent.kind = "text" /\ Upper(Strip(intent.text)) = APPROVE

\* ------------------------------------------------------------------------
\* C5 as stated: in stage reviewing, every classification outcome that is
\* not exactly APPROVE after trim and upper-casing leaves user_confirmed
\* unset and the workflow in stage reviewing.
\* ------------------------------------------------------------------------
C5_NonApproveStaysReviewing ==
    (ReviewedInReviewing /\ ~IsApprove(wf_last.intent))
    => /\ ~wf.user_confirmed
       /\ wf.stage = "reviewing"

\* ------------------------------------------------------------------------
\* C5 amended: in stage reviewing, no classification outcome other than
\* exactly APPROVE sets user_confirmed or moves the workflow to confirmed or
\* posted; and when the outcome is none of APPROVE, ADD_IMAGE, CANCEL (EDIT,
\* an out-of-vocabulary word, empty output, a failed call) the workflow
\* stays in stage reviewing.
\* ------------------------------------------------------------------------
C5_NonApproveNeverConfirms ==
    (ReviewedInReviewing /\ ~IsApprove(wf_last.intent))
    => /\ ~wf.user_confirmed
       /\ wf.stage \notin {"confirmed", "posted"}
       /\ (wf_last.intent.kind = "text"
             /\ Upper(Strip(wf_last.intent.text)) \in {ADD_IMAGE, CANCEL})
          \/ wf.stage = "reviewing"

\* the answer "APPROVE." was given in stage reviewing, the draft was
\* revised and the workflow is still negotiating
C5_Witness ==
    /\ ReviewedInReviewing
    /\ wf_last.intent = Said(<<Up("approve", 7), Lo(".", 1)>>)
    /\ ~wf_raised
    /\ wf.stage = "reviewing"
    /\ ~wf.user_confirmed
    /\ wf.error = NoneStr
    /\ LastAI(wf.messages) = "Here's the revised post"

\* ------------------------------------------------------------------------
\* C4: when the Cooldown & Dedup Guard would reject the draft (cooldown
\* active or duplicate content), a continue_with call does not take the
\* workflow to stage posted.
\* ------------------------------------------------------------------------
C4_GuardConsultedBeforePosted ==
    (/\ wf_last.op = "continue"
     /\ wf_last.stage \in {"reviewing", "image_review"}
     /\ ~wf_last.complete
     /\ wf_last.guard_rejects)
    => wf.stage # "posted"

\* ------------------------------------------------------------------------
\* C11: from stage reviewing, a continue_with whose feedback is classified
\* APPROVE takes the workflow to posted within that call, marks it
\* complete, and consults the Cooldown & Dedup Guard exactly once.
\* ------------------------------------------------------------------------
C11_ApprovePostsGuardedOnce ==
    (ReviewedInReviewing /\ IsApprove(wf_last.intent))
    => /\ wf.stage = "posted"
       /\ wf.user_confirmed
       /\ wf_complete
       /\ wf_last.guard_consults = 1

\* a step that is a continue_with call which found an active workflow
ContinueStep ==
    /\ wf_calls' = wf_calls + 1
    /\ wf_last'.op = "continue"
    /\ wf.started
    /\ ~IsComplete(wf, wf_complete)

\* the utterance contains one of the confirmation keywords
Affirms(u) == u.words \cap ConfirmWords # {}

C13_CancelReachesCancelled ==
    (/\ wf_last.op = "continue"
     /\ ~wf_last.complete
     /\ \/ /\ wf_last.stage = "reviewing"
           /\ wf_last.intent.kind = "text"
           /\ Upper(Strip(wf_last.intent.text)) = CANCEL
        \/ /\ wf_last.stage = "image_review"
           /\ "cancel" \in wf_last.handled.words)
    => wf.stage = "cancelled"

\* ------------------------------------------------------------------------
\* C14: once a drafting or revision step has failed (the error is recorded)
\* the workflow is in a terminal state: is_complete is true.
\* ------------------------------------------------------------------------
C14_FailureIsTerminal ==
    (wf.started /\ wf.error # NoneStr) => IsComplete(wf, wf_complete)

\* ------------------------------------------------------------------------
\* C15: after start(topic) has drafted a post, whatever workflow the runner
\* held before, nothing of the prior negotiation is left (history, image
\* description, flags) and the workflow is active: is_complete is false.
\* ------------------------------------------------------------------------
C15_StartLeavesActiveWorkflow ==
    (wf_last.op = "start" /\ ~wf_raised /\ wf.error = NoneStr)
    => /\ wf.messages = <<Human(wf.user_request), AI("Here's a draft")>>
       /\ wf.image_description = NoneStr
       /\ ~wf.user_confirmed
       /\ ~wf.wants_image
       /\ wf.stage = "reviewing"
       /\ ~IsComplete(wf, wf_complete)

\* ------------------------------------------------------------------------
\* C16: continue_with called while the runner holds no workflow (none
\* started, or after reset) does not raise, makes no model call, leaves the
\* state absent and returns the no-active-workflow message.
\* ------------------------------------------------------------------------
C16_ContinueWithoutWorkflow ==
    (wf_last.op = "continue" /\ wf_last.stage = "not_started")
    => /\ ~wf_raised
       /\ wf = NoWorkflow
       /\ wf_last.llm_calls = 0
       /\ wf_return = "No active workflow. Please start a new post request."

\* three calls were made and the last one, a continue_with, found no
\* workflow
C16_Witness ==
    /\ wf_calls = 3
    /\ wf_last.op = "continue"
    /\ wf_last.stage = "not_started"
    /\ wf_return = "No active workflow. Please start a new post request."

\* the smaller of two numbers
Min(a, b) == IF a < b THEN a ELSE b

\* ------------------------------------------------------------------------
\* C17: add_conversation(namespace, role, text) followed immediately by
\* get_conversation_history(namespace, limit = 1), no other entry having
\* been pushed since, returns the one-element sequence holding the entry
\* just appended.
\* ------------------------------------------------------------------------
C17_AppendThenGetNewest ==
    (/\ history.done
     /\ history.limit = 1
     /\ history.prev.op = "trim"
     /\ log_call[history.prev.c].ns = history.ns
     /\ log_pushed[history.ns][1] = log_call[history.prev.c].entry)
    => history.result = <<log_call[history.prev.c].entry>>

\* the append overflowed a full log, and the read right after it returned
\* the new entry
C17_Witness ==
    /\ history.done
    /\ history.limit = 1
    /\ history.prev.op = "trim"
    /\ log_pushed[history.ns][1] = log_call[history.prev.c].entry
    /\ history.result = <<log_call[history.prev.c].entry>>
    /\ history.result[1].role = "assistant"
    /\ Len(log_pushed[history.ns]) > ConversationLimit

\* the add_conversation calls on a namespace that have pushed and not trimmed
LogInFlight(ns) == {c \in 1..MaxLogCalls : log_pc[c] = "trim" /\ log_call[c].ns = ns}

\* ------------------------------------------------------------------------
\* C18: however the push and trim steps of add_conversation calls
\* interleave, the log is always the newest entries pushed, newest first;
\* an entry is dropped only when at least 100 newer ones exist; the length
\* never exceeds 100 plus the number of in-flight appends; and once all
\* calls have finished the log holds exactly the min(n, 100) newest entries.
\* ------------------------------------------------------------------------
C18_TrimKeepsNewest ==
    \A ns \in LogNamespaces :
        LET list == conversation[ns]
            pushed == log_pushed[ns]
        IN  /\ Len(list) <= Len(pushed)
            /\ list = SubSeq(pushed, 1, Len(list))
            /\ Len(list) >= Min(Len(pushed), ConversationLimit)
            /\ Len(list) <= ConversationLimit + Cardinality(LogInFlight(ns))
            /\ LogInFlight(ns) = {} => Len(list) = Min(Len(pushed), ConversationLimit)

\* three appends on a log of 99 entries have finished: 102 pushed, 100 kept
C18_Witness ==
    \E ns \in LogNamespaces :
        /\ \A c \in 1..MaxLogCalls : log_pc[c] = "done" /\ log_call[c].ns = ns
        /\ Len(log_pushed[ns]) >= ConversationLimit + 2
        /\ Len(conversation[ns]) = ConversationLimit
        /\ conversation[ns][1] = log_call[MaxLogCalls].entry

\* ------------------------------------------------------------------------
\* C19: for every limit >= 0, get_conversation_history(namespace, limit)
\* returns at most limit entries: the newest entries of the log, newest
\* first.
\* ------------------------------------------------------------------------
C19_HistoryNewestAtMostLimit ==
    [][log_prev'.op = "get"
         => history'.result =
              SubSeq(conversation[history'.ns], 1,
                     Min(history'.limit, Len(conversation[history'.ns])))]_vars

\* the check_linkedin_duplicate calls that have returned
DupReturned == {c \in 1..MaxDupCalls : dup_pc[c] = "done"}

\* ------------------------------------------------------------------------
\* C20: for check_linkedin_duplicate calls made one after the other, a call
\* returns True exactly when an earlier call with the same fingerprint
\* returned False and recorded it less than that call's window before;
\* otherwise it returns False and records the fingerprint (again).  A call
\* that returns True does not extend the expiry.
\* ------------------------------------------------------------------------
C20_SequentialDuplicate ==
    \A c \in DupReturned :
        /\ dup_result[c] =
             (\E e \in DupReturned \ {c} :
                 /\ ~dup_result[e]
                 /\ ContentHash(dup_call[e].content) = ContentHash(dup_call[c].content)
                 /\ dup_call[e].recorded <= dup_call[c].start
                 /\ dup_call[c].start < dup_call[e].recorded + dup_call[e].window)
        /\ dup_result[c] = (dup_call[c].recorded = -1)

\* False, then True within the window, then False again after it
C20_Witness ==
    /\ DupReturned = 1..MaxDupCalls
    /\ \A c \in DupReturned :
          ContentHash(dup_call[c].content) = ContentHash(dup_call[1].content)
    /\ ~dup_result[1]
    /\ dup_result[2]
    /\ dup_call[2].start > dup_call[1].recorded
    /\ dup_call[2].content # dup_call[1].content
    /\ ~dup_result[3]
    /\ dup_call[3].recorded >= dup_call[1].recorded + dup_call[1].window

\* C21: post_to_x invocations with identical content made within the
\* cooldown window push at most one x_post task between them.
C21_XAtMostOneTask ==
    \A c, e \in 1..MaxXCalls :
        ( /\ c < e
          /\ x_pc[c] = "done" /\ x_pc[e] = "done"
          /\ x_call[c].post_content = x_call[e].post_content
          /\ x_call[e].start - x_call[c].start < PostCooldown )
        => ~(x_call[c].pushed /\ x_call[e].pushed)

\* C22: once a turn has switched the mode, the mode held in the store as
\* scalar state equals the orchestrator's current mode.
C22_PersistedModeIsCurrent ==
    (turns > 0 /\ current_mode # basic) => mode_state = current_mode

\* C23: a post_to_linkedin call waiting on the shared state store never ends
\* by propagating the store's failure.
C23_StoreFailureNotPropagated ==
    [][\A c \in 1..MaxPostCalls :
          (post_pc[c] \in {"read", "store", "store2"} /\ post_pc'[c] = "done")
          => post_result'[c] # "raised"]_vars

\* ------------------------------------------------------------------------
\* C24: start and continue_with never propagate an exception, whatever the
\* inference side does (the call raising, or no client to be had).
\* ------------------------------------------------------------------------
C24_NoFailurePropagates ==
    wf_last.op \in {"start", "continue"} => ~wf_raised

\* ------------------------------------------------------------------------
\* C25: when start or continue_with has run a step and ends with an error
\* recorded or with the workflow cancelled, the text it returns is that
\* error or the cancellation result.
\* ------------------------------------------------------------------------
C25_ReturnReportsOutcome ==
    (/\ \/ wf_last.op = "start"
        \/ wf_last.op = "continue" /\ ~wf_last.complete /\ wf_last.stage # "not_started"
     /\ ~wf_raised
     /\ wf.started
     /\ wf.error # NoneStr \/ wf.stage = "cancelled")
    => wf_return \in ({wf.error, wf.result} \ {NoneStr})

\* ------------------------------------------------------------------------
\* C26: a posted workflow is confirmed and has a draft; and the stage only
\* becomes posted in a continue_with whose utterance was accepted as an
\* approval: classified APPROVE in reviewing, or an affirmation of a stored
\* image description in image_review.
\* ------------------------------------------------------------------------
C26_PostedOnlyByApproval ==
    /\ [](wf.stage = "posted" => (wf.user_confirmed /\ wf.draft_content.some))
    /\ [][(wf.stage # "posted" /\ wf'.stage = "posted")
            => /\ ContinueStep
               /\ \/ wf.stage = "reviewing" /\ IsApprove(wf_last'.intent)
                  \/ /\ wf.stage = "image_review"
                     /\ Affirms(wf_last'.handled)
                     /\ wf.image_description # NoneStr]_vars

C26_Witness ==
    /\ wf.stage = "posted"
    /\ wf.user_confirmed
    /\ wf.draft_content = SomeText(<<Lo("bye", 3)>>)
    /\ wf_last.stage = "image_review"
    /\ wf_last.handled.text = "yes"
    /\ wf_last.image = "a rocket launching at sunset"

\* feedback in reviewing that review_draft hands to revise_draft
RevisionStep ==
    /\ ContinueStep
    /\ wf.stage = "reviewing"
    /\ wf_last'.intent.kind = "text"
    /\ Upper(Strip(wf_last'.intent.text)) \notin {APPROVE, ADD_IMAGE, CANCEL}

\* ------------------------------------------------------------------------
\* C27: a revision is computed from the draft current at the time of the
\* feedback (so the k-th from the result of the k-1st, the first from the
\* initial draft); user_request is unchanged; a revision that fails (no
\* revised post is presented) leaves the draft unchanged.
\* ------------------------------------------------------------------------
C27_RevisionFromCurrentDraft ==
    [][RevisionStep =>
          /\ wf'.user_request = wf.user_request
          /\ wf_last'.revised_from.made => wf_last'.revised_from.draft = wf.draft_content
          /\ IF GetLastResponse(wf') = "Here's the revised post"
                /\ Len(wf'.messages) = Len(wf.messages) + 2
             THEN /\ wf_last'.revised_from.made
                  /\ wf'.draft_content.some
                  /\ wf'.stage = "reviewing"
             ELSE wf'.draft_content = wf.draft_content]_vars

C27_Witness ==
    /\ wf_calls = 3
    /\ wf_last.op = "continue"
    /\ wf_last.revised_from = [made |-> TRUE, draft |-> SomeText(<<>>)]
    /\ GetLastResponse(wf) = "Here's the revised post"
    /\ wf.draft_content = SomeText(<<Lo("hello", 5)>>)

\* ------------------------------------------------------------------------
\* C28: in stage image_review a continue_with leaves draft_content and
\* user_request alone, makes no model call (no classification, no
\* revision) and does not raise.
\* ------------------------------------------------------------------------
C28_ImageReviewFrame ==
    [][(ContinueStep /\ wf.stage = "image_review") =>
          /\ wf'.draft_content = wf.draft_content
          /\ wf'.user_request = wf.user_request
          /\ wf_last'.llm_calls = 0
          /\ ~wf_last'.revised_from.made
          /\ ~wf_raised']_vars

C28_Witness ==
    /\ wf_calls = 4
    /\ wf_last.op = "continue"
    /\ wf_last.stage = "image_review"
    /\ wf_last.image = "yes"
    /\ wf.stage = "image_review"
    /\ wf.image_description = "a rocket launching at sunset"
    /\ wf.draft_content = SomeText(<<Lo("hello", 5)>>)

\* the utterance describes an image
Describes(u) ==
    u.text \in {"a rocket launching at sunset", "a good-looking robot instead",
                "a snowy mountain"}

\* ------------------------------------------------------------------------
\* C29: in image_review the workflow goes on to confirmed / posted only on
\* an affirmation of a stored description; an utterance that describes an
\* image, whatever words it contains, becomes the description, with the
\* stage still image_review, user_confirmed unset and a confirmation prompt
\* appended.
\* ------------------------------------------------------------------------
C29_OnlyAffirmationConfirms ==
    [][(ContinueStep /\ wf.stage = "image_review") =>
          /\ wf'.stage \in {"confirmed", "posted"}
             => /\ Affirms(wf_last'.handled)
                /\ ~Describes(wf_last'.handled)
                /\ wf.image_description # NoneStr
          /\ Describes(wf_last'.handled)
             => /\ wf'.stage = "image_review"
                /\ ~wf'.user_confirmed
                /\ wf'.image_description = wf_last'.handled.text
                /\ wf'.messages[Len(wf'.messages)] \in
                      {AI("I'll generate an image. Ready to post with this image?"),
                       AI("I'll generate an image. Does this sound good?")}]_vars

\* the utterance declines and does not affirm
Declines(u) == u.words \cap DeclineWords # {} /\ u.words \cap ConfirmWords = {}

\* ------------------------------------------------------------------------
\* C30: a decline in image_review takes the workflow back to reviewing with
\* no image description, wants_image and user_confirmed unset; and a posted
\* workflow that wants an image has an image description.
\* ------------------------------------------------------------------------
C30_DeclineReturnsToReviewing ==
    /\ [][(ContinueStep /\ wf.stage = "image_review" /\ Declines(wf_last'.handled))
            => /\ wf'.stage = "reviewing"
               /\ wf'.image_description = NoneStr
               /\ ~wf'.wants_image
               /\ ~wf'.user_confirmed]_vars
    /\ []((wf.stage = "posted" /\ wf.wants_image) => wf.image_description # NoneStr)

\* ------------------------------------------------------------------------
\* C31: once the stage is posted or cancelled, a continue_with changes
\* nothing of the workflow (no message appended, no field changed), makes no
\* model call, does not raise, and returns the stored result, or the
\* already-complete message when there is none.
\* ------------------------------------------------------------------------
C31_TerminalStagesAbsorb ==
    [][(/\ wf_calls' = wf_calls + 1
        /\ wf_last'.op = "continue"
        /\ wf.started
        /\ wf.stage \in {"posted", "cancelled"})
       => /\ wf' = wf
          /\ wf_complete' = wf_complete
          /\ wf_last'.llm_calls = 0
          /\ ~wf_raised'
          /\ wf_return' = IF wf.result # NoneStr THEN wf.result
                          ELSE "Workflow already complete."]_vars

\* continue_with was called on a workflow that a failed draft had left in
\* stage cancelled, the completion flag unset
C31_Witness ==
    /\ wf_calls = 2
    /\ wf_last.op = "continue"
    /\ wf_last.stage = "cancelled"
    /\ wf.stage = "cancelled"
    /\ wf.error = "Failed to draft post"
    /\ ~wf_complete
    /\ wf_return = "Workflow already complete."

\* the last n elements of a sequence
LastN(s, n) == IF Len(s) <= n THEN s ELSE SubSeq(s, Len(s) - n + 1, Len(s))

\* the submissions accepted so far, oldest first, as the queue shows them
AcceptedPosts ==
    [i \in 1..Len(task_queue) |->
        [preview |-> PostPreview(task_queue[Len(task_queue) + 1 - i].post_text),
         timestamp |-> task_queue[Len(task_queue) + 1 - i].timestamp]]

\* what is stored of a list of recent posts
Recorded(recent_posts) ==
    [i \in 1..Len(recent_posts) |->
        [preview |-> recent_posts[i].preview, timestamp |-> recent_posts[i].timestamp]]

\* ------------------------------------------------------------------------
\* C32: when no post_to_linkedin call is in flight, the stored recent-posts
\* list holds the last three accepted submissions at most, in acceptance
\* order (those of earlier sessions first), the stored timestamp is the time
\* of the last accepted submission, and the record has no expiry.
\* ------------------------------------------------------------------------
C32_RecentPostsRolling ==
    (\A c \in 1..MaxPostCalls : ~PostInFlight(c))
    => /\ Len(last_post_data.recent_posts) <= RecentPostsKept
       /\ \E k \in PostPrefills :
             Recorded(last_post_data.recent_posts) =
                LastN(Recorded(EarlierPosts(k)) \o AcceptedPosts, RecentPostsKept)
       /\ task_queue # <<>> => last_post_data.timestamp = task_queue[1].timestamp
       /\ last_post_data.set => last_post_data.expire = NoExpiry
       /\ GetState(last_post_data, now) = last_post_data

\* two posts were accepted on top of three earlier ones: the two oldest
\* records are gone
C32_Witness ==
    /\ \A c \in 1..MaxPostCalls : ~PostInFlight(c)
    /\ Len(task_queue) = 2
    /\ Recorded(last_post_data.recent_posts) =
          <<[preview |-> <<Lo("old", 3)>>, timestamp |-> 0],
            [preview |-> <<Lo("hello", 5)>>, timestamp |-> 10],
            [preview |-> <<Lo("bye", 3)>>, timestamp |-> 20]>>
    /\ last_post_data.timestamp = 20

\* trim, case-fold, truncate to the prefix length
Normalized(post_content) == Prefix(Lower(Strip(post_content)), PreviewLength)

\* ------------------------------------------------------------------------
\* C33: post_to_linkedin and check_linkedin_duplicate each take two contents
\* for the same submission exactly when the contents are equal after trim,
\* case-fold and truncation to the prefix length.
\* ------------------------------------------------------------------------
C33_SameIffNormalizedEqual ==
    norm.done
    => /\ norm.by_post = (Normalized(norm.a) = Normalized(norm.b))
       /\ norm.by_check = (Normalized(norm.a) = Normalized(norm.b))

\* ------------------------------------------------------------------------
\* C34: whatever step of post_to_linkedin fails, calls made one after the
\* other never enqueue two linkedin_post tasks for the same normalized
\* content within the cooldown window.
\* ------------------------------------------------------------------------
C34_RetryEnqueuesOnce ==
    \A i, j \in 1..Len(task_queue) :
        ( /\ i < j
          /\ task_queue[i].type = "linkedin_post"
          /\ task_queue[j].type = "linkedin_post"
          /\ PostPreview(task_queue[i].post_text) = PostPreview(task_queue[j].post_text) )
        => task_queue[i].timestamp - task_queue[j].timestamp >= PostCooldown

\* ------------------------------------------------------------------------
\* C35: linkedin_post tasks enqueued by successive post_to_linkedin calls
\* are at least 30 seconds apart: no call made less than 30 seconds after
\* an accepted post is itself accepted.
\* ------------------------------------------------------------------------
C35_ThirtySecondCooldown ==
    \A i, j \in 1..Len(task_queue) :
        i < j => task_queue[i].timestamp - task_queue[j].timestamp >= AnnouncedCooldown

\* ------------------------------------------------------------------------
\* C36: an invocation of the orchestrator's post_to_linkedin tool with a
\* router available, to which neither cooldown nor duplicate detection
\* applies, enqueues one linkedin_post task, updates the submission record
\* and does not answer that posting is unavailable.
\* ------------------------------------------------------------------------
C36_UnifiedToolPosts ==
    \A c \in 1..MaxPostCalls :
        ( /\ post_pc[c] = "done"
          /\ post_result[c] # "Router not available"
          /\ PostGuard(GetState(last_post_data, post_local[c].current_time),
                       post_local[c].post_content, post_local[c].current_time) = "go" )
        => /\ post_result[c] # "LinkedIn posting not available"
           /\ \E i \in 1..Len(task_queue) :
                 /\ task_queue[i].type = "linkedin_post"
                 /\ task_queue[i].post_text = post_local[c].post_content
           /\ last_post_data.set

\* the tasks of a room that are pending or have dispatched
LiveDispatches(room) ==
    {t \in 1..MaxDispatchTasks :
        dispatch_room[t] = room /\ (DispatchPending(t) \/ dispatch_pc[t] = "succeeded")}

\* ------------------------------------------------------------------------
\* C37: per room, at most one room-creation-and-dispatch task is pending or
\* has succeeded, whatever the interleaving of token requests and tasks; a
\* failed dispatch takes the room out of the dispatched set, and the next
\* token request for it starts a new task; a step for one room changes
\* nothing of another room.
\* ------------------------------------------------------------------------
C37_DispatchOncePerRoom ==
    /\ [](\A room \in Rooms :
            /\ Cardinality(LiveDispatches(room)) <= 1
            /\ (room \in dispatched_rooms) = (LiveDispatches(room) # {}))
    /\ [][\A t \in 1..MaxDispatchTasks :
            (dispatch_pc[t] = "dispatch" /\ dispatch_pc'[t] = "failed")
            => dispatch_room[t] \notin dispatched_rooms']_vars
    /\ [][(token_requests' = token_requests + 1 /\ token_last'.status = 200
             /\ ~token_last'.known)
          => \E t \in 1..MaxDispatchTasks :
                /\ dispatch_pc[t] = "idle"
                /\ dispatch_pc'[t] = "create"
                /\ dispatch_room'[t] = token_last'.room]_vars
    /\ [][\A room \in Rooms :
            (/\ token_requests' = token_requests + 1 => token_last'.room # room
             /\ \A t \in 1..MaxDispatchTasks :
                   dispatch_pc'[t] # dispatch_pc[t] => dispatch_room'[t] # room)
            => /\ (room \in dispatched_rooms') = (room \in dispatched_rooms)
               /\ LiveDispatches(room)' = LiveDispatches(room)]_vars

\* a dispatch for a room failed, a later request started a second one, which
\* succeeded, while the other room's dispatch is still pending
C37_Witness ==
    \E t, e, o \in 1..MaxDispatchTasks :
        /\ dispatch_room[t] = "my-room" /\ dispatch_pc[t] = "failed"
        /\ dispatch_room[e] = "my-room" /\ dispatch_pc[e] = "succeeded"
        /\ dispatch_room[o] = "room-2" /\ DispatchPending(o)
        /\ dispatched_rooms = Rooms

\* ------------------------------------------------------------------------
\* C38: after start or continue_with has returned normally on a workflow,
\* the stage is reviewing, image_review, posted or cancelled, never drafting
\* or confirmed; and is_complete holds exactly when the stage is posted or
\* cancelled.
\* ------------------------------------------------------------------------
C38_StagesBetweenCalls ==
    (wf_last.op \in {"start", "continue"} /\ ~wf_raised /\ wf.started)
    => /\ wf.stage \in {"reviewing", "image_review", "posted", "cancelled"}
       /\ IsComplete(wf, wf_complete) = (wf.stage \in {"posted", "cancelled"})


\* C39: each committed conversation turn is appended to the store at most
\* once: whatever the interleaving of the speech-committed hooks and the
\* message monitor, no two entries of the per-mode conversation logs record
\* the same turn (same role, same words).
LogEntries == UNION { { <<ns, i>> : i \in 1..Len(conversation[ns]) } : ns \in AgentTypes }
SameTurn(e, f) ==
    /\ conversation[e[1]][e[2]].role = conversation[f[1]][f[2]].role
    /\ Strip(conversation[e[1]][e[2]].message) = Strip(conversation[f[1]][f[2]].message)
C39_TurnRecordedOnce ==
    \A e \in LogEntries, f \in LogEntries : e # f => ~SameTurn(e, f)


\* C40: the transcript archived at the end of a session holds only turns of
\* that session: every message handed to save_conversation is a turn the
\* session itself committed, whatever another session sharing the store has
\* logged.
OwnTurn(m) ==
    \E i \in 1..Len(chat_items) :
        /\ chat_items[i].role = m.role
        /\ chat_items[i].content = m.message
C40_TranscriptOfOwnSession ==
    \A i \in 1..Len(save_messages) : OwnTurn(save_messages[i])

====
